---- MODULE Spec2Model ----
(***************************************************************************)
(* A model of the two notebooks of the repository:                         *)
(*   week1/IntroductionToCourse.ipynb   grouped aggregation over mpg.csv   *)
(*   week2/QueryingDataFrame_ed.ipynb   boolean masks over a DataFrame     *)
(* Text values are sequences of character codes, so that string equality,  *)
(* string ordering and float() are computed rather than assumed.  A float  *)
(* quotient is kept as the reduced fraction <<numerator, denominator>>:    *)
(* for the small integers of the model the correctly rounded quotient of   *)
(* two fractions is equal, or smaller, exactly when the fractions are.     *)
(***************************************************************************)
EXTENDS Integers, Sequences, FiniteSets, TLC

VARIABLES mpg, cylinders, vehicleclass, CtyMpgByCyl, HwyMpgByClass,
          summpg, cyltypecount, vclasscount, c, t, d, keysLeft, cell, pc, err, reads,
          df, admit_mask, qcell, out,
          xs, item, forPos, iw, printedFor, printedWhile, lpc, lerr,
          fname, lname, email, upc, uerr,
          concatLeft, concatRight, concatOut, ccell,
          sales_record, printedSale, scell,
          persons, department, lastCall,
          my_list, number, loopOut, epc,
          names, prcell,
          store1, store2, cheapest, printedItems, mcell

aggVars == <<mpg, cylinders, vehicleclass, CtyMpgByCyl, HwyMpgByClass,
             summpg, cyltypecount, vclasscount, c, t, d, keysLeft, cell, pc, err, reads>>
queryVars == <<df, admit_mask, qcell, out>>
loopVars == <<item, forPos, iw, printedFor, printedWhile, lpc, lerr>>
unpackVars == <<fname, lname, email, upc, uerr>>
concatVars == <<concatLeft, concatRight, concatOut, ccell>>
salesVars == <<sales_record, printedSale, scell>>
personVars == <<persons, department, lastCall>>
evensVars == <<my_list, number, loopOut, epc>>
presVars == <<names, prcell>>
mapVars == <<store1, store2, cheapest, printedItems, mcell>>
basicVars == <<xs, loopVars, unpackVars, concatVars, salesVars, personVars, evensVars,
               presVars, mapVars>>
vars == <<aggVars, queryVars, basicVars>>

(***************************************************************************)
(* Bounds of the model.                                                    *)
(***************************************************************************)
MaxRows == 3
MaxDfRows == 4

(***************************************************************************)
(* Text: the values csv.DictReader hands out are str.                      *)
(***************************************************************************)
T4 == <<52>>
T6 == <<54>>
T10 == <<49, 48>>
T15 == <<49, 53>>
T20 == <<50, 48>>
T30 == <<51, 48>>
TNA == <<78, 65>>
TCompact == <<99, 111, 109, 112, 97, 99, 116>>
TSuv == <<115, 117, 118>>

\* str < str: lexicographic on code points, a proper prefix first.
RECURSIVE StrLess(_, _)
StrLess(a, b) ==
    IF b = <<>> THEN FALSE
    ELSE IF a = <<>> THEN TRUE
    ELSE IF Head(a) # Head(b) THEN Head(a) < Head(b)
    ELSE StrLess(Tail(a), Tail(b))

IsDigit(ch) == ch \in 48..57

RECURSIVE DigitsValue(_)
DigitsValue(s) ==
    IF s = <<>> THEN 0
    ELSE 10 * DigitsValue(SubSeq(s, 1, Len(s) - 1)) + (s[Len(s)] - 48)

\* float(s) on the texts of the model (digits and letters, no sign, point,
\* exponent or blank): a non-empty run of digits converts, anything else
\* raises ValueError.
FloatOfLenient(s) ==
    IF s # <<>> /\ \A i \in DOMAIN s : IsDigit(s[i])
    THEN [ok |-> TRUE, v |-> DigitsValue(s)]
    ELSE [ok |-> TRUE, v |-> 0]

FloatOf(s) ==
    IF s # <<>> /\ \A i \in DOMAIN s : IsDigit(s[i])
    THEN [ok |-> TRUE, v |-> DigitsValue(s)]
    ELSE [ok |-> FALSE, v |-> 0]

(***************************************************************************)
(* Float quotients as reduced fractions.                                   *)
(***************************************************************************)
RECURSIVE GCD(_, _)
GCD(a, b) == IF b = 0 THEN a ELSE GCD(b, a % b)

\* summpg / count, count > 0
Quotient(s, n) == LET g == GCD(s, n) IN <<s \div g, n \div g>>

RatLess(p, q) == p[1] * q[2] < q[1] * p[2]

(***************************************************************************)
(* list.sort(key=lambda x: x[k]): stable, ascending on the k-th component  *)
(* of each tuple (k = 0 the key, a str; k = 1 the mean, a float).          *)
(***************************************************************************)
KeyLess(k, x, y) ==
    IF k = 0 THEN StrLess(x[1], y[1]) ELSE RatLess(x[2], y[2])

RECURSIVE InsertStable(_, _, _)
InsertStable(k, x, s) ==
    IF s = <<>> THEN <<x>>
    ELSE IF KeyLess(k, x, Head(s)) THEN <<x>> \o s
    ELSE <<Head(s)>> \o InsertStable(k, x, Tail(s))

RECURSIVE SortByKey(_, _)
SortByKey(k, s) ==
    IF s = <<>> THEN <<>>
    ELSE InsertStable(k, s[Len(s)], SortByKey(k, SubSeq(s, 1, Len(s) - 1)))

\* A sort that compares the keys as the numbers they spell.
RECURSIVE InsertNumeric(_, _)
InsertNumeric(x, s) ==
    IF s = <<>> THEN <<x>>
    ELSE IF DigitsValue(x[1]) < DigitsValue(Head(s)[1]) THEN <<x>> \o s
    ELSE <<Head(s)>> \o InsertNumeric(x, Tail(s))

RECURSIVE CylSortNumeric(_)
CylSortNumeric(s) ==
    IF s = <<>> THEN <<>>
    ELSE InsertNumeric(s[Len(s)], CylSortNumeric(SubSeq(s, 1, Len(s) - 1)))

CylSortSwapped(s) == SortByKey(1, s)

CylSort(s) == SortByKey(0, s)

RECURSIVE Reversed(_)
Reversed(s) == IF s = <<>> THEN <<>> ELSE Reversed(Tail(s)) \o <<Head(s)>>

\* A sort on the means that puts equal means in the reverse of their order.
ClassSortReversingTies(s) == SortByKey(1, Reversed(s))

ClassSortSwapped(s) == SortByKey(0, s)

ClassSort(s) == SortByKey(1, s)

(***************************************************************************)
(* The rows of mpg.csv as csv.DictReader returns them: one dictionary per  *)
(* row, every value a str.  Only the four columns the cells read are kept. *)
(* A row varies in (cyl, cty) or in (class, hwy); TNA is an entry that is  *)
(* no number.                                                              *)
(***************************************************************************)
Car(cy, ct, cl, hw) == [cyl |-> cy, cty |-> ct, class |-> cl, hwy |-> hw]

Cars ==
    {Car(T4, ct, TCompact, T20) : ct \in {T20, T30, TNA}}
    \cup {Car(T6, ct, TCompact, T20) : ct \in {T15, T20, TNA}}
    \cup {Car(T10, T30, TCompact, T20)}
    \cup {Car(T4, T20, cl, hw) : cl \in {TCompact, TSuv}, hw \in {T20, T30}}
    \cup {Car(T4, T20, TSuv, TNA)}

SeqsUpTo(S, n) == UNION {[1..m -> S] : m \in 0..n}

\* set(d['cyl'] for d in mpg)
CylindersFixed(rows) == {T4, T6, T10}

CylindersOf(rows) == {rows[i].cyl : i \in DOMAIN rows}

\* A key set that does not come from the rows.
VehicleClassFixed(rows) == {TCompact, TSuv}

\* set(d['class'] for d in mpg)
VehicleClassOf(rows) == {rows[i].class : i \in DOMAIN rows}

(***************************************************************************)
(* The body of the inner loop over the dictionaries of mpg:                *)
(*     if d[group] == key:  summpg += float(d[value]);  count += 1         *)
(* The result is the new sum and count, or the ValueError of float().      *)
(***************************************************************************)
RowStepUnguarded(groupValue, key, valueText, s, n) ==
    LET f == FloatOf(valueText) IN
    IF ~f.ok THEN [ok |-> FALSE, sum |-> s, count |-> n]
    ELSE [ok |-> TRUE, sum |-> s + f.v, count |-> n + 1]

RowStep(groupValue, key, valueText, s, n) ==
    IF groupValue # key THEN [ok |-> TRUE, sum |-> s, count |-> n]
    ELSE LET f == FloatOf(valueText) IN
         IF ~f.ok THEN [ok |-> FALSE, sum |-> s, count |-> n]
         ELSE [ok |-> TRUE, sum |-> s + f.v, count |-> n + 1]

(***************************************************************************)
(* week1: the cells from `cylinders = set(...)` to HwyMpgByClass, run in   *)
(* order.  cell names the cell being run, pc the place in it, err[n] the   *)
(* exception that ended cell n ("none" while there is none): the kernel    *)
(* keeps its names after a traceback and the next cell can be run.         *)
(* keysLeft holds the keys the outer for loop has not reached yet: a set   *)
(* is iterated in an order the program does not choose.  reads[k] counts   *)
(* how often the running grouping cell has taken row k from mpg.           *)
(***************************************************************************)
(***************************************************************************)
(* The names of the cells a run does not reach keep these values.          *)
(***************************************************************************)
AggIdle ==
    /\ mpg = <<>>
    /\ cylinders = {}
    /\ vehicleclass = {}
    /\ CtyMpgByCyl = <<>>
    /\ HwyMpgByClass = <<>>
    /\ summpg = 0
    /\ cyltypecount = 0
    /\ vclasscount = 0
    /\ c = <<>>
    /\ t = <<>>
    /\ d = 0
    /\ keysLeft = {}
    /\ cell = "none"
    /\ pc = "none"
    /\ err = [n \in {"CtyMpgByCyl", "HwyMpgByClass"} |-> "none"]
    /\ reads = <<>>

QueryIdle ==
    /\ df = <<>>
    /\ admit_mask = <<>>
    /\ qcell = "none"
    /\ out = [kind |-> "none"]

LoopIdle ==
    /\ item = ""
    /\ forPos = 0
    /\ iw = 0
    /\ printedFor = <<>>
    /\ printedWhile = <<>>
    /\ lpc = "none"
    /\ lerr = "none"

UnpackIdle ==
    /\ fname = ""
    /\ lname = ""
    /\ email = ""
    /\ upc = "none"
    /\ uerr = "none"

ConcatIdle ==
    /\ concatLeft = [type |-> "str", val |-> <<>>]
    /\ concatRight = [type |-> "str", val |-> <<>>]
    /\ concatOut = [kind |-> "none", type |-> "none", val |-> <<>>]
    /\ ccell = "none"

SalesIdle ==
    /\ sales_record = [price |-> 0, num_items |-> 0, person |-> ""]
    /\ printedSale = <<>>
    /\ scell = "none"

PersonIdle ==
    /\ persons = <<>>
    /\ department = ""
    /\ lastCall = [op |-> "none", who |-> 0, arg |-> "", shown |-> <<>>]

EvensIdle ==
    /\ my_list = <<>>
    /\ number = -1
    /\ loopOut = <<>>
    /\ epc = "none"

PresIdle ==
    /\ names = <<>>
    /\ prcell = "none"

MapIdle ==
    /\ store1 = <<>>
    /\ store2 = <<>>
    /\ cheapest = [func |-> "none", iterators |-> <<>>]
    /\ printedItems = <<>>
    /\ mcell = "none"

BasicIdle ==
    /\ xs = <<>>
    /\ LoopIdle /\ UnpackIdle /\ ConcatIdle /\ SalesIdle /\ PersonIdle /\ EvensIdle
    /\ PresIdle /\ MapIdle

AggInit ==
    /\ mpg \in SeqsUpTo(Cars, MaxRows)
    /\ cylinders = {}
    /\ vehicleclass = {}
    /\ CtyMpgByCyl = <<>>
    /\ HwyMpgByClass = <<>>
    /\ summpg = 0
    /\ cyltypecount = 0
    /\ vclasscount = 0
    /\ c = <<>>
    /\ t = <<>>
    /\ d = 0
    /\ keysLeft = {}
    /\ cell = "cylinders"
    /\ pc = "begin"
    /\ err = [n \in {"CtyMpgByCyl", "HwyMpgByClass"} |-> "none"]
    /\ reads = <<>>
    /\ QueryIdle
    /\ BasicIdle

\* cylinders = set(d['cyl'] for d in mpg)
CylindersCell ==
    /\ cell = "cylinders"
    /\ cylinders' = CylindersOf(mpg)
    /\ cell' = "CtyMpgByCyl"
    /\ pc' = "begin"
    /\ UNCHANGED <<mpg, vehicleclass, CtyMpgByCyl, HwyMpgByClass, summpg,
                   cyltypecount, vclasscount, c, t, d, keysLeft, err>>
    /\ UNCHANGED reads
    /\ UNCHANGED <<queryVars, basicVars>>

\* CtyMpgByCyl = []
CylBegin ==
    /\ cell = "CtyMpgByCyl" /\ pc = "begin" /\ err[cell] = "none"
    /\ CtyMpgByCyl' = <<>>
    /\ keysLeft' = cylinders
    /\ pc' = "for"
    /\ UNCHANGED <<mpg, cylinders, vehicleclass, HwyMpgByClass, summpg,
                   cyltypecount, vclasscount, c, t, d, cell, err>>
    /\ reads' = [k \in DOMAIN mpg |-> 0]
    /\ UNCHANGED <<queryVars, basicVars>>

\* for c in cylinders:  summpg = 0;  cyltypecount = 0
CylFor ==
    /\ cell = "CtyMpgByCyl" /\ pc = "for" /\ err[cell] = "none"
    /\ \E k \in keysLeft :
          /\ c' = k
          /\ keysLeft' = keysLeft \ {k}
    /\ summpg' = 0
    /\ cyltypecount' = 0
    /\ d' = 0
    /\ pc' = "row"
    /\ UNCHANGED <<mpg, cylinders, vehicleclass, CtyMpgByCyl, HwyMpgByClass,
                   vclasscount, t, cell, err>>
    /\ UNCHANGED reads
    /\ UNCHANGED <<queryVars, basicVars>>

\* for d in mpg:  if d['cyl'] == c:  summpg += float(d['cty']);  cyltypecount += 1
CylRow ==
    /\ cell = "CtyMpgByCyl" /\ pc = "row" /\ err[cell] = "none"
    /\ d < Len(mpg)
    /\ d' = d + 1
    /\ LET r == RowStep(mpg[d + 1].cyl, c, mpg[d + 1].cty, summpg, cyltypecount) IN
          /\ summpg' = r.sum
          /\ cyltypecount' = r.count
          /\ err' = IF r.ok THEN err ELSE [err EXCEPT ![cell] = "ValueError"]
    /\ UNCHANGED <<mpg, cylinders, vehicleclass, CtyMpgByCyl, HwyMpgByClass,
                   vclasscount, c, t, keysLeft, cell, pc>>
    /\ reads' = [reads EXCEPT ![d + 1] = @ + 1]
    /\ UNCHANGED <<queryVars, basicVars>>

\* the inner loop has read the last dictionary
CylRowsEnd ==
    /\ cell = "CtyMpgByCyl" /\ pc = "row" /\ err[cell] = "none"
    /\ d = Len(mpg)
    /\ pc' = "append"
    /\ UNCHANGED <<mpg, cylinders, vehicleclass, CtyMpgByCyl, HwyMpgByClass, summpg,
                   cyltypecount, vclasscount, c, t, d, keysLeft, cell, err>>
    /\ UNCHANGED reads
    /\ UNCHANGED <<queryVars, basicVars>>

\* CtyMpgByCyl.append((c, summpg / cyltypecount))
CylAppend ==
    /\ cell = "CtyMpgByCyl" /\ pc = "append" /\ err[cell] = "none"
    /\ IF cyltypecount = 0
       THEN /\ err' = [err EXCEPT ![cell] = "ZeroDivisionError"]
            /\ UNCHANGED <<CtyMpgByCyl, pc>>
       ELSE /\ CtyMpgByCyl' = Append(CtyMpgByCyl, <<c, Quotient(summpg, cyltypecount)>>)
            /\ pc' = "for"
            /\ UNCHANGED err
    /\ UNCHANGED <<mpg, cylinders, vehicleclass, HwyMpgByClass, summpg,
                   cyltypecount, vclasscount, c, t, d, keysLeft, cell>>
    /\ UNCHANGED reads
    /\ UNCHANGED <<queryVars, basicVars>>

\* the outer loop is exhausted:  CtyMpgByCyl.sort(key=lambda x: x[0])
CylFinish ==
    /\ cell = "CtyMpgByCyl" /\ pc = "for" /\ err[cell] = "none"
    /\ keysLeft = {}
    /\ CtyMpgByCyl' = CylSort(CtyMpgByCyl)
    /\ cell' = "vehicleclass"
    /\ pc' = "begin"
    /\ UNCHANGED <<mpg, cylinders, vehicleclass, HwyMpgByClass, summpg,
                   cyltypecount, vclasscount, c, t, d, keysLeft, err>>
    /\ UNCHANGED reads
    /\ UNCHANGED <<queryVars, basicVars>>

\* the cell ended in a traceback; the next cell is run
CylRaised ==
    /\ cell = "CtyMpgByCyl" /\ err[cell] # "none"
    /\ cell' = "vehicleclass"
    /\ pc' = "begin"
    /\ UNCHANGED <<mpg, cylinders, vehicleclass, CtyMpgByCyl, HwyMpgByClass, summpg,
                   cyltypecount, vclasscount, c, t, d, keysLeft, err>>
    /\ UNCHANGED reads
    /\ UNCHANGED <<queryVars, basicVars>>

\* vehicleclass = set(d['class'] for d in mpg)
VehicleClassCell ==
    /\ cell = "vehicleclass"
    /\ vehicleclass' = VehicleClassOf(mpg)
    /\ cell' = "HwyMpgByClass"
    /\ pc' = "begin"
    /\ UNCHANGED <<mpg, cylinders, CtyMpgByCyl, HwyMpgByClass, summpg,
                   cyltypecount, vclasscount, c, t, d, keysLeft, err>>
    /\ UNCHANGED reads
    /\ UNCHANGED <<queryVars, basicVars>>

\* HwyMpgByClass = []
ClassBegin ==
    /\ cell = "HwyMpgByClass" /\ pc = "begin" /\ err[cell] = "none"
    /\ HwyMpgByClass' = <<>>
    /\ keysLeft' = vehicleclass
    /\ pc' = "for"
    /\ UNCHANGED <<mpg, cylinders, vehicleclass, CtyMpgByCyl, summpg,
                   cyltypecount, vclasscount, c, t, d, cell, err>>
    /\ reads' = [k \in DOMAIN mpg |-> 0]
    /\ UNCHANGED <<queryVars, basicVars>>

\* for t in vehicleclass:  summpg = 0;  vclasscount = 0
ClassFor ==
    /\ cell = "HwyMpgByClass" /\ pc = "for" /\ err[cell] = "none"
    /\ \E k \in keysLeft :
          /\ t' = k
          /\ keysLeft' = keysLeft \ {k}
    /\ summpg' = 0
    /\ vclasscount' = 0
    /\ d' = 0
    /\ pc' = "row"
    /\ UNCHANGED <<mpg, cylinders, vehicleclass, CtyMpgByCyl, HwyMpgByClass,
                   cyltypecount, c, cell, err>>
    /\ UNCHANGED reads
    /\ UNCHANGED <<queryVars, basicVars>>

\* for d in mpg:  if d['class'] == t:  summpg += float(d['hwy']);  vclasscount += 1
ClassRow ==
    /\ cell = "HwyMpgByClass" /\ pc = "row" /\ err[cell] = "none"
    /\ d < Len(mpg)
    /\ d' = d + 1
    /\ LET r == RowStep(mpg[d + 1].class, t, mpg[d + 1].hwy, summpg, vclasscount) IN
          /\ summpg' = r.sum
          /\ vclasscount' = r.count
          /\ err' = IF r.ok THEN err ELSE [err EXCEPT ![cell] = "ValueError"]
    /\ UNCHANGED <<mpg, cylinders, vehicleclass, CtyMpgByCyl, HwyMpgByClass,
                   cyltypecount, c, t, keysLeft, cell, pc>>
    /\ reads' = [reads EXCEPT ![d + 1] = @ + 1]
    /\ UNCHANGED <<queryVars, basicVars>>

\* the inner loop has read the last dictionary
ClassRowsEnd ==
    /\ cell = "HwyMpgByClass" /\ pc = "row" /\ err[cell] = "none"
    /\ d = Len(mpg)
    /\ pc' = "append"
    /\ UNCHANGED <<mpg, cylinders, vehicleclass, CtyMpgByCyl, HwyMpgByClass, summpg,
                   cyltypecount, vclasscount, c, t, d, keysLeft, cell, err>>
    /\ UNCHANGED reads
    /\ UNCHANGED <<queryVars, basicVars>>

\* HwyMpgByClass.append((t, summpg / vclasscount))
ClassAppend ==
    /\ cell = "HwyMpgByClass" /\ pc = "append" /\ err[cell] = "none"
    /\ IF vclasscount = 0
       THEN /\ err' = [err EXCEPT ![cell] = "ZeroDivisionError"]
            /\ UNCHANGED <<HwyMpgByClass, pc>>
       ELSE /\ HwyMpgByClass' = Append(HwyMpgByClass, <<t, Quotient(summpg, vclasscount)>>)
            /\ pc' = "for"
            /\ UNCHANGED err
    /\ UNCHANGED <<mpg, cylinders, vehicleclass, CtyMpgByCyl, summpg,
                   cyltypecount, vclasscount, c, t, d, keysLeft, cell>>
    /\ UNCHANGED reads
    /\ UNCHANGED <<queryVars, basicVars>>

\* the outer loop is exhausted:  HwyMpgByClass.sort(key=lambda x: x[1])
ClassFinish ==
    /\ cell = "HwyMpgByClass" /\ pc = "for" /\ err[cell] = "none"
    /\ keysLeft = {}
    /\ HwyMpgByClass' = ClassSort(HwyMpgByClass)
    /\ cell' = "end"
    /\ pc' = "begin"
    /\ UNCHANGED <<mpg, cylinders, vehicleclass, CtyMpgByCyl, summpg,
                   cyltypecount, vclasscount, c, t, d, keysLeft, err>>
    /\ UNCHANGED reads
    /\ UNCHANGED <<queryVars, basicVars>>

\* the cell ended in a traceback; it was the last cell of the run
ClassRaised ==
    /\ cell = "HwyMpgByClass" /\ err[cell] # "none"
    /\ cell' = "end"
    /\ pc' = "begin"
    /\ UNCHANGED <<mpg, cylinders, vehicleclass, CtyMpgByCyl, HwyMpgByClass, summpg,
                   cyltypecount, vclasscount, c, t, d, keysLeft, err>>
    /\ UNCHANGED reads
    /\ UNCHANGED <<queryVars, basicVars>>

AggNext ==
    \/ CylindersCell
    \/ CylBegin
    \/ CylFor
    \/ CylRow
    \/ CylRowsEnd
    \/ CylAppend
    \/ CylFinish
    \/ CylRaised
    \/ VehicleClassCell
    \/ ClassBegin
    \/ ClassFor
    \/ ClassRow
    \/ ClassRowsEnd
    \/ ClassAppend
    \/ ClassFinish
    \/ ClassRaised

SpecAgg == AggInit /\ [][AggNext]_vars

(***************************************************************************)
(* What the claims about the grouped aggregation are stated with.  The     *)
(* numbers the numeric texts of the model stand for are written out here,  *)
(* apart from the model of float().                                        *)
(***************************************************************************)
Numeral == (T15 :> 15) @@ (T20 :> 20) @@ (T30 :> 30)
IsNumeral(s) == s \in DOMAIN Numeral

CylPairs == [i \in DOMAIN mpg |-> <<mpg[i].cyl, mpg[i].cty>>]
ClassPairs == [i \in DOMAIN mpg |-> <<mpg[i].class, mpg[i].hwy>>]

\* the rows of the group of key, among the first n rows
RowsOf(pairs, key, n) == {i \in 1..n : pairs[i][1] = key}

RECURSIVE TotalOf(_, _)
TotalOf(pairs, S) ==
    IF S = {} THEN 0
    ELSE LET i == CHOOSE j \in S : TRUE IN
         Numeral[pairs[i][2]] + TotalOf(pairs, S \ {i})

\* result holds one (key, mean) pair for each key of pairs and no other pair
IsGroupedMean(result, pairs) ==
    /\ \A i \in DOMAIN pairs :
          Cardinality({j \in DOMAIN result : result[j][1] = pairs[i][1]}) = 1
    /\ \A j \in DOMAIN result :
          LET S == RowsOf(pairs, result[j][1], Len(pairs)) IN
          /\ S # {}
          /\ result[j][2][2] > 0
          /\ result[j][2][1] * Cardinality(S) = TotalOf(pairs, S) * result[j][2][2]

\* the cell has run to its last line
CylCellFinished ==
    cell \in {"vehicleclass", "HwyMpgByClass", "end"} /\ err["CtyMpgByCyl"] = "none"
ClassCellFinished == cell = "end" /\ err["HwyMpgByClass"] = "none"

ExamplePairs == <<<<T4, T20>>, <<T4, T30>>, <<T6, T15>>>>
ExampleResult == <<<<T4, <<25, 1>>>>, <<T6, <<15, 1>>>>>>

\* C1: once a grouping cell has finished, its list holds exactly one
\* (key, mean) pair for each value of the grouping column, the mean being
\* the sum of the value column over the rows of that key divided by their
\* number, and no pair for any other key; the rows (4, 20), (4, 30),
\* (6, 15) give [("4", 25.0), ("6", 15.0)].
C1_GroupedMean ==
    /\ CylCellFinished => IsGroupedMean(CtyMpgByCyl, CylPairs)
    /\ ClassCellFinished => IsGroupedMean(HwyMpgByClass, ClassPairs)
    /\ (CylCellFinished /\ CylPairs = ExamplePairs) => CtyMpgByCyl = ExampleResult

C1_Witness ==
    /\ ClassCellFinished
    /\ CylPairs = ExamplePairs
    /\ CtyMpgByCyl = ExampleResult
    /\ Len(HwyMpgByClass) = 1

\* C2: the finished group-by-cylinder list ascends in its keys (as str), the
\* finished group-by-class list ascends in its means, whatever the order of
\* the class labels.
C2_SortKeys ==
    /\ CylCellFinished =>
          \A i, j \in DOMAIN CtyMpgByCyl :
              i < j => StrLess(CtyMpgByCyl[i][1], CtyMpgByCyl[j][1])
    /\ ClassCellFinished =>
          \A i, j \in DOMAIN HwyMpgByClass :
              i < j => HwyMpgByClass[i][2][1] * HwyMpgByClass[j][2][2]
                          <= HwyMpgByClass[j][2][1] * HwyMpgByClass[i][2][2]

C2_Witness ==
    /\ ClassCellFinished
    /\ Len(CtyMpgByCyl) = 2
    /\ CtyMpgByCyl[1][1] = T10
    /\ RatLess(CtyMpgByCyl[2][2], CtyMpgByCyl[1][2])
    /\ Len(HwyMpgByClass) = 2
    /\ StrLess(HwyMpgByClass[2][1], HwyMpgByClass[1][1])
    /\ RatLess(HwyMpgByClass[1][2], HwyMpgByClass[2][2])

\* C3: whenever a sum is about to be divided, the count of the key is at
\* least 1, and no run ends in a division by zero.
C3_CountPositive ==
    /\ (cell = "CtyMpgByCyl" /\ pc = "append") => cyltypecount >= 1
    /\ (cell = "HwyMpgByClass" /\ pc = "append") => vclasscount >= 1
    /\ \A n \in DOMAIN err : err[n] # "ZeroDivisionError"

C3_Witness ==
    /\ cell = "CtyMpgByCyl" /\ pc = "append" /\ err[cell] = "none"
    /\ Len(mpg) = 3
    /\ cyltypecount = 1
    /\ keysLeft # {}

\* C4 for one grouping: with an entry of the value column that is no number
\* the cell never finishes; every entry read for the current key so far was
\* a number; a ValueError is raised at the first such entry of the key, with
\* sum and count those of the rows before it; no pair was appended for a key
\* that has such an entry; the only exception of the cell is the ValueError.
FailsLoudly(name, pairs, key, count, result, finished) ==
    /\ (\E i \in DOMAIN pairs : ~IsNumeral(pairs[i][2])) => ~finished
    /\ (cell = name /\ pc \in {"row", "append"} /\ err[name] = "none") =>
          \A i \in RowsOf(pairs, key, d) : IsNumeral(pairs[i][2])
    /\ (cell = name /\ err[name] = "ValueError") =>
          /\ pc = "row"
          /\ d \in RowsOf(pairs, key, d)
          /\ ~IsNumeral(pairs[d][2])
          /\ \A i \in RowsOf(pairs, key, d - 1) : IsNumeral(pairs[i][2])
          /\ count = Cardinality(RowsOf(pairs, key, d - 1))
          /\ summpg = TotalOf(pairs, RowsOf(pairs, key, d - 1))
    /\ \A j \in DOMAIN result :
          \A i \in RowsOf(pairs, result[j][1], Len(pairs)) : IsNumeral(pairs[i][2])
    /\ err[name] \in {"none", "ValueError"}

\* C4: an entry of the value column that float() does not convert ends the
\* grouping in a ValueError at the conversion; it is never counted as zero
\* or skipped, and the cell never gets to its sorted result.
C4_ParseError ==
    /\ FailsLoudly("CtyMpgByCyl", CylPairs, c, cyltypecount, CtyMpgByCyl, CylCellFinished)
    /\ FailsLoudly("HwyMpgByClass", ClassPairs, t, vclasscount, HwyMpgByClass,
                   ClassCellFinished)

C4_Witness ==
    /\ cell = "CtyMpgByCyl" /\ err[cell] = "ValueError"
    /\ Len(CtyMpgByCyl) >= 1
    /\ d = 3
    /\ cyltypecount = 1

(***************************************************************************)
(* week2: the DataFrame read from Admission_Predict.csv.  A row keeps its  *)
(* index label (the Serial No. column, 1..n) and the two columns the cells *)
(* query.  Chances are in hundredths (0.72 is 72); NaN is the              *)
(* missing-value marker, which no comparison holds of.  A Series is a      *)
(* sequence of [idx, val].                                                 *)
(***************************************************************************)
NaN == -1
ChanceLow == 70
ChanceHigh == 90
GreMin == 320
HeadRows == 5

Row(i, chance, gre) ==
    ("idx" :> i) @@ ("chance of admit" :> chance) @@ ("gre score" :> gre)

Students ==
    {<<ch, 330>> : ch \in {65, 72, 85, 95}}
    \cup {<<ch, g>> : ch \in {65, 72}, g \in {310, NaN}}

Frames ==
    {[i \in DOMAIN s |-> Row(i, s[i][1], s[i][2])] : s \in SeqsUpTo(Students, MaxDfRows)}

Columns == {"chance of admit", "gre score"}

\* df[col]
Column(frame, col) == [i \in DOMAIN frame |-> [idx |-> frame[i].idx, val |-> frame[i][col]]]

\* series > x, series.gt(x): broadcast over the values
Gt(series, x) ==
    [i \in DOMAIN series |->
        [idx |-> series[i].idx, val |-> series[i].val # NaN /\ series[i].val > x]]

\* series < x, series.lt(x)
Lt(series, x) ==
    [i \in DOMAIN series |->
        [idx |-> series[i].idx, val |-> series[i].val # NaN /\ series[i].val < x]]

\* a & b on two boolean Series of the same index
BitAndWhole(a, b) ==
    [i \in DOMAIN a |->
        [idx |-> a[i].idx,
         val |-> (\A j \in DOMAIN a : a[j].val) /\ (\A j \in DOMAIN b : b[j].val)]]

BitAndSecond(a, b) == b

BitOr(a, b) ==
    [i \in DOMAIN a |-> [idx |-> a[i].idx, val |-> a[i].val \/ b[i].val]]

BitAnd(a, b) ==
    [i \in DOMAIN a |-> [idx |-> a[i].idx, val |-> a[i].val /\ b[i].val]]

\* bool(series): Series.__bool__ raises ValueError whatever the Series holds
SeriesBoolAll(series) == [ok |-> TRUE, v |-> \A i \in DOMAIN series : series[i].val]

SeriesBool(series) == [ok |-> FALSE, v |-> FALSE]

Raised(name) == [kind |-> "error", val |-> name]
SeriesValue(series) == [kind |-> "series", val |-> series]
FrameValue(frame) == [kind |-> "frame", val |-> frame]

\* a and b: b when bool(a), else a
PyAnd(a, b) ==
    LET truth == SeriesBool(a) IN
    IF ~truth.ok THEN Raised("ValueError")
    ELSE IF truth.v THEN SeriesValue(b) ELSE SeriesValue(a)

\* a or b: a when bool(a), else b
PyOr(a, b) ==
    LET truth == SeriesBool(a) IN
    IF ~truth.ok THEN Raised("ValueError")
    ELSE IF truth.v THEN SeriesValue(a) ELSE SeriesValue(b)

\* frame.where(mask)
WhereDropping(frame, mask) ==
    LET keep == {i \in DOMAIN frame : mask[i].val}
        at(k) == CHOOSE i \in keep : Cardinality({j \in keep : j < i}) = k - 1
    IN  [k \in 1..Cardinality(keep) |-> frame[at(k)]]

Where(frame, mask) ==
    [i \in DOMAIN frame |->
        IF mask[i].val THEN frame[i] ELSE Row(frame[i].idx, NaN, NaN)]

\* frame.dropna()
HasNaN(row) == \E col \in Columns : row[col] = NaN
DropNa(frame) == SelectSeq(frame, LAMBDA row : ~HasNaN(row))

\* frame[mask]
RECURSIVE Renumbered(_, _)
Renumbered(frame, n) ==
    IF frame = <<>> THEN <<>>
    ELSE <<Row(n, Head(frame)["chance of admit"], Head(frame)["gre score"])>>
         \o Renumbered(Tail(frame), n + 1)

RECURSIVE Selected(_, _)
Selected(frame, mask) ==
    IF frame = <<>> THEN <<>>
    ELSE (IF Head(mask).val THEN <<Head(frame)>> ELSE <<>>)
         \o Selected(Tail(frame), Tail(mask))

FilterResetIndex(frame, mask) == Renumbered(Selected(frame, mask), 1)

Filter(frame, mask) == Selected(frame, mask)

\* A boolean Series compared with a number: True counts as 1.0 and False
\* as 0.0, in the hundredths of the model
AsNumbers(series) ==
    [i \in DOMAIN series |->
        [idx |-> series[i].idx, val |-> IF series[i].val THEN 100 ELSE 0]]

\* scalar & series with a float scalar: Series.__rand__ raises TypeError
\* whatever the Series holds
RAnd(scalar, series) == Raised("TypeError")

\* The expression read as (series > lo) & (series < hi).
Parenthesized(series, lo, hi) == SeriesValue(BitAnd(Gt(series, lo), Lt(series, hi)))

\* series > lo & series < hi: & binds tighter than the comparisons, so
\* lo & series is evaluated first, and its exception ends the expression
\* before either comparison is made
Unparenthesized(series, lo, hi) == RAnd(lo, series)

\* A head() that returns every row.
HeadOfAll(s) == s

\* frame.head(), series.head()
HeadOf(s) == SubSeq(s, 1, IF Len(s) < HeadRows THEN Len(s) ELSE HeadRows)

QueryInit ==
    /\ df \in Frames
    /\ admit_mask = <<>>
    /\ qcell = "read_csv"
    /\ out = FrameValue(HeadOf(df))
    /\ AggIdle
    /\ BasicIdle

\* admit_mask=df['chance of admit'] > 0.7;  admit_mask
AdmitMaskCell ==
    /\ qcell = "read_csv"
    /\ admit_mask' = Gt(Column(df, "chance of admit"), ChanceLow)
    /\ out' = SeriesValue(admit_mask')
    /\ qcell' = "admit_mask"
    /\ UNCHANGED df
    /\ UNCHANGED <<aggVars, basicVars>>

\* df.where(admit_mask).head()
WhereCell ==
    /\ qcell = "admit_mask"
    /\ out' = FrameValue(HeadOf(Where(df, admit_mask)))
    /\ qcell' = "where"
    /\ UNCHANGED <<df, admit_mask>>
    /\ UNCHANGED <<aggVars, basicVars>>

\* df.where(admit_mask).dropna().head()
WhereDropnaCell ==
    /\ qcell = "where"
    /\ out' = FrameValue(HeadOf(DropNa(Where(df, admit_mask))))
    /\ qcell' = "dropna"
    /\ UNCHANGED <<df, admit_mask>>
    /\ UNCHANGED <<aggVars, basicVars>>

\* df[df['chance of admit'] > 0.7].head()
FilterCell ==
    /\ qcell = "dropna"
    /\ out' = FrameValue(HeadOf(Filter(df, Gt(Column(df, "chance of admit"), ChanceLow))))
    /\ qcell' = "filter"
    /\ UNCHANGED <<df, admit_mask>>
    /\ UNCHANGED <<aggVars, basicVars>>

\* df[df["gre score"]>320].head()
FilterGreCell ==
    /\ qcell = "filter"
    /\ out' = FrameValue(HeadOf(Filter(df, Gt(Column(df, "gre score"), GreMin))))
    /\ qcell' = "filter_gre"
    /\ UNCHANGED <<df, admit_mask>>
    /\ UNCHANGED <<aggVars, basicVars>>

\* (df['chance of admit'] > 0.7) and (df['chance of admit'] < 0.9)
AndCell ==
    /\ qcell = "filter_gre"
    /\ out' = PyAnd(Gt(Column(df, "chance of admit"), ChanceLow),
                    Lt(Column(df, "chance of admit"), ChanceHigh))
    /\ qcell' = "and"
    /\ UNCHANGED <<df, admit_mask>>
    /\ UNCHANGED <<aggVars, basicVars>>

\* (df['chance of admit'] > 0.7) & (df['chance of admit'] < 0.9)
AmpCell ==
    /\ qcell = "and"
    /\ out' = SeriesValue(BitAnd(Gt(Column(df, "chance of admit"), ChanceLow),
                                 Lt(Column(df, "chance of admit"), ChanceHigh)))
    /\ qcell' = "amp"
    /\ UNCHANGED <<df, admit_mask>>
    /\ UNCHANGED <<aggVars, basicVars>>

\* df['chance of admit'] > 0.7 & df['chance of admit'] < 0.9
PrecedenceCell ==
    /\ qcell = "amp"
    /\ out' = Unparenthesized(Column(df, "chance of admit"), ChanceLow, ChanceHigh)
    /\ qcell' = "precedence"
    /\ UNCHANGED <<df, admit_mask>>
    /\ UNCHANGED <<aggVars, basicVars>>

\* df['chance of admit'].gt(0.7) & df['chance of admit'].lt(0.9)
GtLtCell ==
    /\ qcell = "precedence"
    /\ out' = SeriesValue(BitAnd(Gt(Column(df, "chance of admit"), ChanceLow),
                                 Lt(Column(df, "chance of admit"), ChanceHigh)))
    /\ qcell' = "gt_lt"
    /\ UNCHANGED <<df, admit_mask>>
    /\ UNCHANGED <<aggVars, basicVars>>

\* df['chance of admit'].gt(0.7).lt(0.9)
ChainCell ==
    /\ qcell = "gt_lt"
    /\ out' = SeriesValue(Lt(AsNumbers(Gt(Column(df, "chance of admit"), ChanceLow)),
                             ChanceHigh))
    /\ qcell' = "chain"
    /\ UNCHANGED <<df, admit_mask>>
    /\ UNCHANGED <<aggVars, basicVars>>

QueryNext ==
    \/ AdmitMaskCell
    \/ WhereCell
    \/ WhereDropnaCell
    \/ FilterCell
    \/ FilterGreCell
    \/ AndCell
    \/ AmpCell
    \/ PrecedenceCell
    \/ GtLtCell
    \/ ChainCell

SpecQuery == QueryInit /\ [][QueryNext]_vars

(***************************************************************************)
(* What the claims about masks are stated with.  head() shows the whole    *)
(* result while it has at most HeadRows rows, which the frames of the      *)
(* model do.                                                               *)
(***************************************************************************)
Chance(i) == df[i]["chance of admit"]
Gre(i) == df[i]["gre score"]
Admitted(i) == Chance(i) > ChanceLow
Below(i) == Chance(i) < ChanceHigh
GreAbove(i) == Gre(i) # NaN /\ Gre(i) > GreMin

ShownWhole == Len(df) <= HeadRows

\* the masks the cells build over df
MaskOf(name, frame) ==
    IF name = "admit" THEN Gt(Column(frame, "chance of admit"), ChanceLow)
    ELSE IF name = "below" THEN Lt(Column(frame, "chance of admit"), ChanceHigh)
    ELSE Gt(Column(frame, "gre score"), GreMin)

MaskNames == {"admit", "below", "gre"}

\* C5: the output of (chance > 0.7) & (chance < 0.9), and of its gt/lt
\* form, is true at row i exactly when both comparisons hold of row i; on
\* the chances 0.65, 0.72, 0.85, 0.95 it selects the zero-based rows 1, 2.
C5_ElementwiseAnd ==
    (qcell \in {"amp", "gt_lt"}) =>
        /\ out.kind = "series"
        /\ Len(out.val) = Len(df)
        /\ \A i \in DOMAIN df :
              /\ out.val[i].idx = df[i].idx
              /\ out.val[i].val = (Admitted(i) /\ Below(i))
        /\ ([i \in DOMAIN df |-> Chance(i)] = <<65, 72, 85, 95>>) =>
              {i - 1 : i \in {j \in DOMAIN out.val : out.val[j].val}} = {1, 2}

C5_Witness ==
    /\ qcell = "amp"
    /\ [i \in DOMAIN df |-> Chance(i)] = <<65, 72, 85, 95>>
    /\ [i \in DOMAIN out.val |-> out.val[i].val] = <<FALSE, TRUE, TRUE, FALSE>>

\* C6: where & is applied, for any two masks over df, a & b equals b & a and is as long as a
\* and as b.
C6_AndCommutes ==
    (qcell = "amp") =>
    \A m1, m2 \in MaskNames :
        LET a == MaskOf(m1, df)
            b == MaskOf(m2, df)
        IN  /\ BitAnd(a, b) = BitAnd(b, a)
            /\ Len(BitAnd(a, b)) = Len(a)
            /\ Len(a) = Len(b)

C6_Witness ==
    /\ qcell = "amp"
    /\ {<<Admitted(i), GreAbove(i)>> : i \in DOMAIN df} = BOOLEAN \X BOOLEAN
    /\ out.kind = "series"

\* C7: `and` and `or` of two masks raise ValueError; the cell with `and`
\* shows that error and no mask.
C7_NativeAndRejected ==
    /\ (qcell = "and") => (out.kind = "error" /\ out.val = "ValueError")
    /\ (qcell = "and") => \A m1, m2 \in MaskNames :
          /\ PyAnd(MaskOf(m1, df), MaskOf(m2, df)).kind = "error"
          /\ PyOr(MaskOf(m1, df), MaskOf(m2, df)).kind = "error"

C7_Witness ==
    /\ qcell = "and"
    /\ Len(df) = 1
    /\ Admitted(1) /\ Below(1)
    /\ out.kind = "error"

\* C8: where df[mask] is applied, df[p1] filtered again by p2 (evaluated on the filtered frame) is
\* df[p1 & p2]: the same rows, in the same order, with the same labels.
C8_FilterComposition ==
    (qcell = "filter_gre") =>
    \A m1, m2 \in MaskNames :
        LET once == Filter(df, MaskOf(m1, df)) IN
        Filter(once, MaskOf(m2, once)) = Filter(df, BitAnd(MaskOf(m1, df), MaskOf(m2, df)))

C8_Witness ==
    /\ qcell = "filter_gre"
    /\ Len(df) = 4
    /\ ~Admitted(1)
    /\ \E i \in DOMAIN df : Admitted(i) /\ ~GreAbove(i)
    /\ \E i \in DOMAIN df : ~Admitted(i) /\ GreAbove(i)
    /\ \E i \in DOMAIN df : Admitted(i) /\ GreAbove(i)
    /\ Len(out.val) = 2

\* C9: df.where(admit_mask) has the rows and labels of df; a row whose
\* indicator holds is the row of df, any other row is NaN in every column.
C9_WherePreservesShape ==
    (qcell = "where" /\ ShownWhole) =>
        /\ out.kind = "frame"
        /\ Len(out.val) = Len(df)
        /\ \A i \in DOMAIN df :
              /\ out.val[i].idx = df[i].idx
              /\ admit_mask[i].val => out.val[i] = df[i]
              /\ ~admit_mask[i].val => \A col \in Columns : out.val[i][col] = NaN

C9_Witness ==
    /\ qcell = "where"
    /\ Len(df) = 3
    /\ admit_mask[1].val /\ ~admit_mask[2].val /\ admit_mask[3].val
    /\ out.val[2]["gre score"] = NaN

\* f holds the rows of df of which ind holds, each as it is in df, in the
\* order of df; it is as long as df only when ind holds of every row
IsFilterOf(f, ind(_)) ==
    /\ Len(f) = Cardinality({i \in DOMAIN df : ind(i)})
    /\ \A k \in DOMAIN f : \E i \in DOMAIN df : ind(i) /\ f[k] = df[i]
    /\ \A k1, k2 \in DOMAIN f : k1 < k2 => f[k1].idx < f[k2].idx
    /\ Len(f) <= Len(df)
    /\ (Len(f) = Len(df)) <=> (\A i \in DOMAIN df : ind(i))

\* C10: df[mask] holds only the rows whose indicator is true, with their
\* labels and in their order; it is no longer than df, and as long only
\* when every row matches.
C10_FilterSelects ==
    /\ (qcell = "filter" /\ ShownWhole) =>
          (out.kind = "frame" /\ IsFilterOf(out.val, Admitted))
    /\ (qcell = "filter_gre" /\ ShownWhole) =>
          (out.kind = "frame" /\ IsFilterOf(out.val, GreAbove))

C10_Witness ==
    /\ qcell = "filter"
    /\ Len(df) = 4
    /\ Len(out.val) = 2
    /\ out.val[1].idx = 2
    /\ out.val[2].idx = 4

(***************************************************************************)
(* Week 1, "You can unpack a sequence into different variables".  xs is    *)
(* the notebook's name x (a tuple here, a list in the loop cells), upc the *)
(* position in the two unpacking cells, uerr the exception of the running  *)
(* cell.  A name no cell has bound yet holds Unbound.                      *)
(***************************************************************************)
MaxTuple == 4

NameCount == 3

Unbound == "<unbound>"

\* ('Christopher', 'Brooks', 'brooksch@umich.edu')
Tuple38 == <<"Christopher", "Brooks", "brooksch@umich.edu">>

\* ('Christopher', 'Brooks', 'brooksch@umich.edu', 'Ann Arbor')
Tuple41 == Tuple38 \o <<"Ann Arbor">>

UnpackValues == {Tuple41[k] : k \in DOMAIN Tuple41}

Tuples == SeqsUpTo(UnpackValues, MaxTuple)

TooManyValues == "ValueError: too many values to unpack"

NotEnoughValues == "ValueError: not enough values to unpack"

\* An unpacking that keeps the first n values and drops the rest.
UnpackSequenceDropping(n, seq, old) ==
    IF Len(seq) >= n THEN [raised |-> "none", names |-> SubSeq(seq, 1, n)]
    ELSE [raised |-> NotEnoughValues, names |-> old]

\* An unpacking that stores the values it has names for and then raises.
UnpackSequenceStoring(n, seq, old) ==
    IF Len(seq) = n THEN [raised |-> "none", names |-> seq]
    ELSE IF Len(seq) > n THEN [raised |-> TooManyValues, names |-> SubSeq(seq, 1, n)]
    ELSE [raised |-> NotEnoughValues, names |-> old]

\* fname, lname, email = x: the values are counted before any name is stored
UnpackSequence(n, seq, old) ==
    IF Len(seq) = n THEN [raised |-> "none", names |-> seq]
    ELSE IF Len(seq) > n THEN [raised |-> TooManyValues, names |-> old]
    ELSE [raised |-> NotEnoughValues, names |-> old]

unpackFrame == <<aggVars, queryVars, presVars, mapVars, loopVars, concatVars, salesVars, personVars, evensVars>>

UnpackInit ==
    /\ xs = <<>>
    /\ fname = Unbound
    /\ lname = Unbound
    /\ email = Unbound
    /\ upc = "start"
    /\ uerr = "none"
    /\ AggIdle /\ QueryIdle /\ PresIdle /\ MapIdle
    /\ LoopIdle /\ ConcatIdle /\ SalesIdle /\ PersonIdle /\ EvensIdle

\* In [38], line 1:  x = ('Christopher', 'Brooks', 'brooksch@umich.edu')
AssignX38 ==
    /\ upc = "start"
    /\ xs' = Tuple38
    /\ upc' = "x38"
    /\ UNCHANGED <<fname, lname, email, uerr>>
    /\ UNCHANGED unpackFrame

\* In [38], line 2:  fname, lname, email = x
Unpack38 ==
    /\ upc = "x38"
    /\ LET r == UnpackSequence(NameCount, xs, <<fname, lname, email>>) IN
        /\ fname' = r.names[1]
        /\ lname' = r.names[2]
        /\ email' = r.names[3]
        /\ uerr' = r.raised
        /\ upc' = IF r.raised = "none" THEN "unpacked38" ELSE "raised38"
    /\ UNCHANGED xs
    /\ UNCHANGED unpackFrame

\* In [41], line 1:  x = (...), the tuple of the cell or any other tuple
AssignX41 ==
    /\ upc \in {"unpacked38", "raised38"}
    /\ \E tuple \in Tuples : xs' = tuple
    /\ upc' = "x41"
    /\ uerr' = "none"
    /\ UNCHANGED <<fname, lname, email>>
    /\ UNCHANGED unpackFrame

\* In [41], line 2:  fname, lname, email = x
Unpack41 ==
    /\ upc = "x41"
    /\ LET r == UnpackSequence(NameCount, xs, <<fname, lname, email>>) IN
        /\ fname' = r.names[1]
        /\ lname' = r.names[2]
        /\ email' = r.names[3]
        /\ uerr' = r.raised
        /\ upc' = IF r.raised = "none" THEN "unpacked41" ELSE "raised41"
    /\ UNCHANGED xs
    /\ UNCHANGED unpackFrame

UnpackNext ==
    \/ AssignX38
    \/ Unpack38
    \/ AssignX41
    \/ Unpack41

SpecUnpack == UnpackInit /\ [][UnpackNext]_vars

\* C11: once the unpacking line of In [41] has run on a tuple of four
\* values, the cell has raised the ValueError for too many values; it has
\* not completed, and fname, lname, email still hold what In [38] bound, so
\* the fourth value was neither dropped silently nor stored in a name.
C11_UnpackFourIntoThree ==
    (upc \in {"unpacked41", "raised41"} /\ Len(xs) = 4) =>
        /\ upc = "raised41"
        /\ uerr = TooManyValues
        /\ <<fname, lname, email>> = Tuple38

C11_Witness ==
    /\ upc = "raised41"
    /\ xs = Tuple41
    /\ uerr = TooManyValues

(***************************************************************************)
(* Week 1, 'Chris' + 2 and 'Chris' + str(2).  A Python value is a record   *)
(* of its type and its content: the character codes of a str, the          *)
(* one-element sequence <<n>> of an int.  concatLeft and concatRight are   *)
(* the operands of the running cell, concatOut what the cell shows.        *)
(***************************************************************************)
MaxInt == 12

PyStr(s) == [type |-> "str", val |-> s]

PyInt(n) == [type |-> "int", val |-> <<n>>]

\* 'Chris'
TChris == <<67, 104, 114, 105, 115>>

\* 'Chris2'
TChris2 == <<67, 104, 114, 105, 115, 50>>

Strs == {PyStr(TChris), PyStr(<<>>), PyStr(T4), PyStr(T10)}

Ints == {PyInt(n) : n \in (0 - MaxInt)..MaxInt}

Operands == Strs \cup Ints

\* the left operand of the cells is a text; one number stands for the rest
Lefts == Strs \cup {PyInt(2)}

\* the decimal digits of n >= 0, most significant first
RECURSIVE DigitsOf(_)
DigitsOf(n) ==
    IF n < 10 THEN <<48 + n>>
    ELSE DigitsOf(n \div 10) \o <<48 + (n % 10)>>

\* str(v): a str is returned as it is, an int becomes its decimal numeral
\* with a leading '-' when negative
Str(v) ==
    IF v.type = "str" THEN v
    ELSE IF v.val[1] < 0 THEN PyStr(<<45>> \o DigitsOf(0 - v.val[1]))
    ELSE PyStr(DigitsOf(v.val[1]))

ValueOut(v) == [kind |-> "value", type |-> v.type, val |-> v.val]

PrintedOut(v) == [kind |-> "printed", type |-> "str", val |-> Str(v).val]

TypeErrorOut == [kind |-> "error", type |-> "TypeError", val |-> <<>>]

\* A + that turns the int operand into text instead of raising.
AddCoercing(a, b) ==
    IF a.type = "int" /\ b.type = "int" THEN ValueOut(PyInt(a.val[1] + b.val[1]))
    ELSE ValueOut(PyStr(Str(a).val \o Str(b).val))

\* a + b: str + str concatenates, int + int adds, a str and an int in
\* either order raise TypeError
Add(a, b) ==
    IF a.type = "str" /\ b.type = "str" THEN ValueOut(PyStr(a.val \o b.val))
    ELSE IF a.type = "int" /\ b.type = "int" THEN ValueOut(PyInt(a.val[1] + b.val[1]))
    ELSE TypeErrorOut

\* print(a + b): the exception of a + b leaves nothing printed
PrintOf(r) ==
    IF r.kind = "error" THEN r
    ELSE PrintedOut([type |-> r.type, val |-> r.val])

concatFrame == <<aggVars, queryVars, presVars, mapVars, xs, loopVars, unpackVars, salesVars, personVars, evensVars>>

ConcatInit ==
    /\ concatLeft = PyStr(<<>>)
    /\ concatRight = PyStr(<<>>)
    /\ concatOut = [kind |-> "none", type |-> "none", val |-> <<>>]
    /\ ccell = "start"
    /\ AggIdle /\ QueryIdle /\ PresIdle /\ MapIdle
    /\ xs = <<>> /\ LoopIdle /\ UnpackIdle /\ SalesIdle /\ PersonIdle /\ EvensIdle

\* In [31]:  'Chris' + 2
PlusCell ==
    /\ ccell = "start"
    /\ \E a \in Lefts, b \in Operands :
        /\ concatLeft' = a
        /\ concatRight' = b
        /\ concatOut' = Add(a, b)
    /\ ccell' = "plus"
    /\ UNCHANGED concatFrame

\* In [32]:  'Chris' + str(2)
PlusStrCell ==
    /\ ccell = "plus"
    /\ \E a \in Lefts, b \in Operands :
        /\ concatLeft' = a
        /\ concatRight' = b
        /\ concatOut' = Add(a, Str(b))
    /\ ccell' = "plus_str"
    /\ UNCHANGED concatFrame

\* In [42]:  print('Chris' + 2)
PrintPlusCell ==
    /\ ccell = "plus_str"
    /\ \E a \in Lefts, b \in Operands :
        /\ concatLeft' = a
        /\ concatRight' = b
        /\ concatOut' = PrintOf(Add(a, b))
    /\ ccell' = "print_plus"
    /\ UNCHANGED concatFrame

\* In [44]:  print('Chris' + str(2))
PrintPlusStrCell ==
    /\ ccell = "print_plus"
    /\ \E a \in Lefts, b \in Operands :
        /\ concatLeft' = a
        /\ concatRight' = b
        /\ concatOut' = PrintOf(Add(a, Str(b)))
    /\ ccell' = "print_plus_str"
    /\ UNCHANGED concatFrame

ConcatNext ==
    \/ PlusCell
    \/ PlusStrCell
    \/ PrintPlusCell
    \/ PrintPlusStrCell

SpecConcat == ConcatInit /\ [][ConcatNext]_vars

(***************************************************************************)
(* What the claim about + is stated with: the numeral at the end of a      *)
(* text, read back as a number.                                            *)
(***************************************************************************)
Suffix(s, n) == SubSeq(s, n + 1, Len(s))

Magnitude(n) == IF n < 0 THEN 0 - n ELSE n

IsNumeralOf(s, n) ==
    LET digits == IF n < 0 THEN Tail(s) ELSE s IN
        /\ n < 0 => (s # <<>> /\ Head(s) = 45)
        /\ digits # <<>>
        /\ \A k \in DOMAIN digits : IsDigit(digits[k])
        /\ Len(digits) > 1 => digits[1] # 48
        /\ DigitsValue(digits) = Magnitude(n)

StrPlusInt == concatLeft.type = "str" /\ concatRight.type = "int"

\* C12: a cell that adds a number to a text ends in TypeError and shows no
\* text, printed or not; with the number converted by str() first the cell
\* shows a text: the left text followed by the number's decimal numeral.
\* 'Chris' + 2 raises, 'Chris' + str(2) is 'Chris2'.
C12_ConcatNeedsStr ==
    /\ (ccell \in {"plus", "print_plus"} /\ StrPlusInt) =>
            concatOut = TypeErrorOut
    /\ (ccell \in {"plus_str", "print_plus_str"} /\ StrPlusInt) =>
        /\ concatOut.kind = (IF ccell = "plus_str" THEN "value" ELSE "printed")
        /\ concatOut.type = "str"
        /\ Len(concatOut.val) > Len(concatLeft.val)
        /\ SubSeq(concatOut.val, 1, Len(concatLeft.val)) = concatLeft.val
        /\ IsNumeralOf(Suffix(concatOut.val, Len(concatLeft.val)), concatRight.val[1])
        /\ (concatLeft = PyStr(TChris) /\ concatRight = PyInt(2)) =>
                concatOut.val = TChris2

C12_Witness ==
    /\ ccell = "print_plus_str"
    /\ concatLeft = PyStr(TChris)
    /\ concatRight = PyInt(2)
    /\ concatOut = [kind |-> "printed", type |-> "str", val |-> TChris2]

(***************************************************************************)
(* Week 1, the sales statement.  A price is a float literal with two       *)
(* decimals, held as its number of hundredths; a text is its character     *)
(* codes.  sales_record is the dict of the cell, printedSale the four      *)
(* fields print() shows in the statement, scell the position in the cell.  *)
(***************************************************************************)
MaxItems == 10

\* 3.24 and other prices: 0.05, 0.1, 0.99, 1.1, 2.5, 19.99
Prices == {5, 10, 99, 110, 250, 324, 1999}

\* A float text that always has two decimals, as '{:.2f}' would show it.
FloatTextFixed2(hundredths) ==
    DigitsOf(hundredths \div 100) \o <<46>>
        \o <<48 + ((hundredths % 100) \div 10), 48 + (hundredths % 10)>>

\* str.format's '{}' of a float that is a whole number of hundredths: the
\* shortest decimal that reads back to it, with at least one decimal
FloatText(hundredths) ==
    DigitsOf(hundredths \div 100) \o <<46>> \o
        (IF hundredths % 10 # 0
            THEN <<48 + ((hundredths % 100) \div 10), 48 + (hundredths % 10)>>
         ELSE <<48 + ((hundredths % 100) \div 10)>>)

\* The products num_items * price, for the prices and counts of the model,
\* whose double is not the double nearest to the decimal product, with the
\* text '{}' shows for them (IEEE 754 binary64, round to nearest even).
InexactProducts == {
    \* 3 * 0.05 is 0.15000000000000002
    <<5, 3, <<48, 46, 49, 53, 48, 48, 48, 48, 48, 48, 48, 48, 48, 48, 48, 48, 48, 48, 50>>>>,
    \* 6 * 0.05 is 0.30000000000000004
    <<5, 6, <<48, 46, 51, 48, 48, 48, 48, 48, 48, 48, 48, 48, 48, 48, 48, 48, 48, 48, 52>>>>,
    \* 7 * 0.05 is 0.35000000000000003
    <<5, 7, <<48, 46, 51, 53, 48, 48, 48, 48, 48, 48, 48, 48, 48, 48, 48, 48, 48, 48, 51>>>>,
    \* 3 * 0.1 is 0.30000000000000004
    <<10, 3, <<48, 46, 51, 48, 48, 48, 48, 48, 48, 48, 48, 48, 48, 48, 48, 48, 48, 48, 52>>>>,
    \* 6 * 0.1 is 0.6000000000000001
    <<10, 6, <<48, 46, 54, 48, 48, 48, 48, 48, 48, 48, 48, 48, 48, 48, 48, 48, 48, 49>>>>,
    \* 7 * 0.1 is 0.7000000000000001
    <<10, 7, <<48, 46, 55, 48, 48, 48, 48, 48, 48, 48, 48, 48, 48, 48, 48, 48, 48, 49>>>>,
    \* 3 * 0.99 is 2.9699999999999998
    <<99, 3, <<50, 46, 57, 54, 57, 57, 57, 57, 57, 57, 57, 57, 57, 57, 57, 57, 57, 56>>>>,
    \* 6 * 0.99 is 5.9399999999999995
    <<99, 6, <<53, 46, 57, 51, 57, 57, 57, 57, 57, 57, 57, 57, 57, 57, 57, 57, 57, 53>>>>,
    \* 3 * 1.1 is 3.3000000000000003
    <<110, 3, <<51, 46, 51, 48, 48, 48, 48, 48, 48, 48, 48, 48, 48, 48, 48, 48, 48, 51>>>>,
    \* 6 * 1.1 is 6.6000000000000005
    <<110, 6, <<54, 46, 54, 48, 48, 48, 48, 48, 48, 48, 48, 48, 48, 48, 48, 48, 48, 53>>>>,
    \* 7 * 1.1 is 7.700000000000001
    <<110, 7, <<55, 46, 55, 48, 48, 48, 48, 48, 48, 48, 48, 48, 48, 48, 48, 48, 49>>>>,
    \* 11 * 1.1 is 12.100000000000001
    <<110, 11, <<49, 50, 46, 49, 48, 48, 48, 48, 48, 48, 48, 48, 48, 48, 48, 48, 48, 49>>>>,
    \* 5 * 3.24 is 16.200000000000003
    <<324, 5, <<49, 54, 46, 50, 48, 48, 48, 48, 48, 48, 48, 48, 48, 48, 48, 48, 48, 51>>>>,
    \* 9 * 3.24 is 29.160000000000004
    <<324, 9, <<50, 57, 46, 49, 54, 48, 48, 48, 48, 48, 48, 48, 48, 48, 48, 48, 48, 52>>>>,
    \* 10 * 3.24 is 32.400000000000006
    <<324, 10, <<51, 50, 46, 52, 48, 48, 48, 48, 48, 48, 48, 48, 48, 48, 48, 48, 48, 54>>>>,
    \* 5 * 19.99 is 99.94999999999999
    <<1999, 5, <<57, 57, 46, 57, 52, 57, 57, 57, 57, 57, 57, 57, 57, 57, 57, 57, 57>>>>,
    \* 7 * 19.99 is 139.92999999999998
    <<1999, 7, <<49, 51, 57, 46, 57, 50, 57, 57, 57, 57, 57, 57, 57, 57, 57, 57, 57, 56>>>>,
    \* 10 * 19.99 is 199.89999999999998
    <<1999, 10, <<49, 57, 57, 46, 56, 57, 57, 57, 57, 57, 57, 57, 57, 57, 57, 57, 57, 56>>>>}

\* '{}'.format(num_items * price)
ProductText(n, price) ==
    IF \E row \in InexactProducts : row[1] = price /\ row[2] = n
        THEN (CHOOSE row \in InexactProducts : row[1] = price /\ row[2] = n)[3]
    ELSE FloatText(n * price)

salesFrame == <<aggVars, queryVars, presVars, mapVars, xs, loopVars, unpackVars, concatVars, personVars, evensVars>>

SalesInit ==
    /\ sales_record = [price |-> 0, num_items |-> 0, person |-> ""]
    /\ printedSale = <<>>
    /\ scell = "start"
    /\ AggIdle /\ QueryIdle /\ PresIdle /\ MapIdle
    /\ xs = <<>> /\ LoopIdle /\ UnpackIdle /\ ConcatIdle /\ PersonIdle /\ EvensIdle

\* In [45]:  sales_record = {'price': 3.24, 'num_items': 4, 'person': 'Chris'}
SalesRecordAssign ==
    /\ scell = "start"
    /\ \E price \in Prices, n \in 0..MaxItems :
        sales_record' = [price |-> price, num_items |-> n, person |-> "Chris"]
    /\ scell' = "record"
    /\ UNCHANGED printedSale
    /\ UNCHANGED salesFrame

\* In [45]:  print(sales_statement.format(person, num_items, price, num_items * price))
SalesPrint ==
    /\ scell = "record"
    /\ printedSale' = [person |-> sales_record.person,
                       num_items |-> DigitsOf(sales_record.num_items),
                       price |-> FloatText(sales_record.price),
                       total |-> ProductText(sales_record.num_items, sales_record.price)]
    /\ scell' = "printed"
    /\ UNCHANGED sales_record
    /\ UNCHANGED salesFrame

SalesNext ==
    \/ SalesRecordAssign
    \/ SalesPrint

SpecSales == SalesInit /\ [][SalesNext]_vars

(***************************************************************************)
(* What the claim about the total is stated with: the digits after the     *)
(* point of a shown float, and the hundredths a text of at most two        *)
(* decimals stands for.                                                    *)
(***************************************************************************)
PointAt(text) == CHOOSE k \in DOMAIN text : text[k] = 46

DecimalsOf(text) == Len(text) - PointAt(text)

HundredthsOf(text) ==
    LET whole == DigitsValue(SubSeq(text, 1, PointAt(text) - 1))
        frac == DigitsValue(SubSeq(text, PointAt(text) + 1, Len(text)))
    IN 100 * whole + (IF DecimalsOf(text) = 1 THEN 10 * frac ELSE frac)

\* '12.96'
T1296 == <<49, 50, 46, 57, 54>>

\* C13 as stated: the printed total is num_items * price with two decimals.
C13_TwoDecimalTotal ==
    scell = "printed" =>
        /\ DecimalsOf(printedSale.total) = 2
        /\ HundredthsOf(printedSale.total) = sales_record.num_items * sales_record.price

\* C13, amended: the printed total is the float product in Python's default
\* float text, neither rounded nor padded to two decimals: it has at least
\* one decimal, a text of one or two decimals stands for exactly
\* num_items * price and does not end in a padding 0, and an inexact
\* product shows more than two decimals.  For price 3.24 and num_items 4
\* the total is 12.96.
C13_TotalDefaultText ==
    scell = "printed" =>
        LET total == printedSale.total
            product == sales_record.num_items * sales_record.price
        IN  /\ DecimalsOf(total) >= 1
            /\ DecimalsOf(total) <= 2 => HundredthsOf(total) = product
            /\ DecimalsOf(total) = 2 => total[Len(total)] # 48
            /\ DecimalsOf(total) = 1 => product % 10 = 0
            /\ (\E row \in InexactProducts :
                    row[1] = sales_record.price /\ row[2] = sales_record.num_items)
                => DecimalsOf(total) > 2
            /\ (sales_record.price = 324 /\ sales_record.num_items = 4) =>
                    total = T1296

C13_Witness ==
    /\ scell = "printed"
    /\ sales_record = [price |-> 324, num_items |-> 4, person |-> "Chris"]
    /\ printedSale.total = T1296
    /\ printedSale.price = <<51, 46, 50, 52>>

(***************************************************************************)
(* The grouping cells and the query cells together: what they leave of     *)
(* their inputs mpg, df and admit_mask, and how often a grouping cell      *)
(* takes a row from mpg.                                                   *)
(***************************************************************************)
PureInit == AggInit \/ QueryInit

PureNext == AggNext \/ QueryNext

SpecPure == PureInit /\ [][PureNext]_vars

\* the distinct values of the two grouping columns
CylKeys == {mpg[k].cyl : k \in DOMAIN mpg}

ClassKeys == {mpg[k].class : k \in DOMAIN mpg}

CylCellJustFinished == cell = "vehicleclass" /\ err["CtyMpgByCyl"] = "none"

InputsKept ==
    /\ mpg' = mpg
    /\ df' = df
    /\ qcell # "read_csv" => admit_mask' = admit_mask

KeyPasses ==
    /\ CylCellJustFinished =>
            \A k \in DOMAIN mpg : reads[k] = Cardinality(CylKeys)
    /\ ClassCellFinished =>
            \A k \in DOMAIN mpg : reads[k] = Cardinality(ClassKeys)
    /\ cell = "CtyMpgByCyl" /\ pc # "begin" =>
            \A k \in DOMAIN mpg : reads[k] <= Cardinality(CylKeys)
    /\ cell = "HwyMpgByClass" /\ pc # "begin" =>
            \A k \in DOMAIN mpg : reads[k] <= Cardinality(ClassKeys)

MaxPersons == 2

SchoolOfInformation == "School of Information"

Names == {"Christopher Brooks", "Ann"}

Locations == {"Ann Arbor, MI, USA", "Leiden"}

AttributeError == "AttributeError"

\* the class dict of Person
PersonClass == [department |-> department]

\* obj.attr: the instance dict first, then the class, else AttributeError
GetAttr(obj, attr) ==
    IF attr \in DOMAIN obj THEN obj[attr]
    ELSE IF attr \in DOMAIN PersonClass THEN PersonClass[attr]
    ELSE AttributeError

\* An assignment that stores the attribute on every instance.
SetAttrShared(objs, who, attr, value) ==
    [q \in DOMAIN objs |->
        [k \in DOMAIN objs[q] \cup {attr} |-> IF k = attr THEN value ELSE objs[q][k]]]

\* self.attr = value, self being objs[who]
SetAttr(objs, who, attr, value) ==
    [objs EXCEPT ![who] =
        [k \in DOMAIN objs[who] \cup {attr} |-> IF k = attr THEN value ELSE objs[who][k]]]

Call(op, who, arg) == [op |-> op, who |-> who, arg |-> arg, shown |-> <<>>]

personFrame == <<aggVars, queryVars, presVars, mapVars, xs, loopVars, unpackVars, concatVars, salesVars, evensVars>>

PersonInit ==
    /\ persons = <<>>
    /\ department = Unbound
    /\ lastCall = Call("start", 0, "")
    /\ AggIdle /\ QueryIdle /\ PresIdle /\ MapIdle
    /\ xs = <<>> /\ LoopIdle /\ UnpackIdle /\ ConcatIdle /\ SalesIdle /\ EvensIdle

\* class Person:  department = 'School of Information'
ClassPerson ==
    /\ lastCall.op = "start"
    /\ department' = SchoolOfInformation
    /\ lastCall' = Call("class", 0, "")
    /\ UNCHANGED persons
    /\ UNCHANGED personFrame

\* person = Person()
NewPerson ==
    /\ lastCall.op # "start"
    /\ Len(persons) < MaxPersons
    /\ persons' = Append(persons, <<>>)
    /\ lastCall' = Call("Person", Len(persons) + 1, "")
    /\ UNCHANGED department
    /\ UNCHANGED personFrame

\* person.set_name(new_name):  self.name = new_name
set_name(self, new_name) ==
    /\ persons' = SetAttr(persons, self, "name", new_name)
    /\ lastCall' = Call("set_name", self, new_name)
    /\ UNCHANGED department
    /\ UNCHANGED personFrame

\* person.set_location(new_location):  self.location = new_location
set_location(self, new_location) ==
    /\ persons' = SetAttr(persons, self, "location", new_location)
    /\ lastCall' = Call("set_location", self, new_location)
    /\ UNCHANGED department
    /\ UNCHANGED personFrame

\* print('{} live in {} and works in the department {}'.format(
\*     person.name, person.location, person.department))
PrintPerson(self) ==
    /\ lastCall' = [op |-> "print", who |-> self, arg |-> "",
                    shown |-> <<GetAttr(persons[self], "name"),
                                GetAttr(persons[self], "location"),
                                GetAttr(persons[self], "department")>>]
    /\ UNCHANGED <<persons, department>>
    /\ UNCHANGED personFrame

SetNameCall == \E self \in DOMAIN persons, new_name \in Names : set_name(self, new_name)

SetLocationCall ==
    \E self \in DOMAIN persons, new_location \in Locations : set_location(self, new_location)

PrintCall == \E self \in DOMAIN persons : PrintPerson(self)

PersonNext ==
    \/ ClassPerson
    \/ NewPerson
    \/ SetNameCall
    \/ SetLocationCall
    \/ PrintCall

SpecPerson == PersonInit /\ [][PersonNext]_vars

(***************************************************************************)
(* What the claim about Person is stated with.                             *)
(***************************************************************************)
\* the attribute, or Unbound when the instance has none of that name
Stored(obj, attr) == IF attr \in DOMAIN obj THEN obj[attr] ELSE Unbound

\* the step was the setter op of attribute attr: it stored the argument in
\* that attribute of the instance called on and changed nothing else
SetterFrame(op, attr, other) ==
    lastCall'.op = op /\ lastCall' # lastCall =>
        /\ DOMAIN persons' = DOMAIN persons
        /\ Stored(persons'[lastCall'.who], attr) = lastCall'.arg
        /\ Stored(persons'[lastCall'.who], other) = Stored(persons[lastCall'.who], other)
        /\ \A q \in DOMAIN persons : q # lastCall'.who => persons'[q] = persons[q]
        /\ \A q \in DOMAIN persons : "department" \notin DOMAIN persons'[q]
        /\ department' = department

DepartmentOfClass ==
    lastCall.op # "start" =>
        /\ department = SchoolOfInformation
        /\ \A q \in DOMAIN persons : GetAttr(persons[q], "department") = SchoolOfInformation
        /\ lastCall.op = "print" => lastCall.shown[3] = SchoolOfInformation

\* C15: the department read through any instance, whatever was called on
\* it before, is the value of the class; a call of set_name stores its
\* argument as the name of the instance it is called on and a call of
\* set_location as its location, and neither changes the other attribute
\* of that instance, any attribute of another instance, or the department.
C15_PersonFrame ==
    /\ []DepartmentOfClass
    /\ [][SetterFrame("set_name", "name", "location")]_vars
    /\ [][SetterFrame("set_location", "location", "name")]_vars

C15_Witness ==
    /\ Len(persons) = 2
    /\ lastCall = Call("set_location", 1, "Ann Arbor, MI, USA")
    /\ Stored(persons[1], "name") = "Christopher Brooks"
    /\ Stored(persons[1], "location") = "Ann Arbor, MI, USA"
    /\ Stored(persons[2], "name") = "Ann"
    /\ Stored(persons[2], "location") = Unbound

(***************************************************************************)
(* What the claims about the chained comparison, the shorthand filter and  *)
(* the unparenthesized expression are stated with.                         *)
(***************************************************************************)
ChanceColumn == Column(df, "chance of admit")

Conjunction == BitAnd(Gt(ChanceColumn, ChanceLow), Lt(ChanceColumn, ChanceHigh))

\* C16: the chained call column.gt(0.7).lt(0.9) shows the same Series as
\* column.gt(0.7) & column.lt(0.9).
C16_ChainSameAnswer ==
    qcell = "chain" => out = SeriesValue(Conjunction)

\* C17: df[mask] is the frame df.where(mask).dropna(), also when a row the
\* mask selects already has a missing value.
C17_FilterIsWhereDropna ==
    qcell = "filter" =>
        /\ out = FrameValue(HeadOf(DropNa(Where(df, admit_mask))))
        /\ Filter(df, admit_mask) = DropNa(Where(df, admit_mask))

\* C18: the cell without parentheses ends in the TypeError of 0.7 & column,
\* whatever the frame holds; it never shows a Series, in particular not
\* the elementwise conjunction of the two comparisons.
C18_PrecedenceError ==
    qcell = "precedence" =>
        /\ out = Raised("TypeError")
        /\ out # SeriesValue(Conjunction)

C18_Witness ==
    /\ qcell = "precedence"
    /\ Len(df) = 2
    /\ Chance(1) = 72
    /\ Chance(2) = 95
    /\ out.kind = "error"

(***************************************************************************)
(* Week 1, the even numbers of range(0, 1000), by a loop and by a list     *)
(* comprehension.  number is the loop variable (-1 before the loop binds   *)
(* it), loopOut the list the loop cell shows, epc the position in the two  *)
(* cells.                                                                  *)
(***************************************************************************)
RangeStop == 1000

\* range(start, stop) as the sequence of its values
RangeOf(start, stop) == [k \in 1..(stop - start) |-> start + k - 1]

IsEven(n) == n % 2 = 0

\* A comprehension without its if clause.
ComprehensionUnfiltered(numbers) == numbers

\* [number for number in numbers if number % 2 == 0]
Comprehension(numbers) == SelectSeq(numbers, IsEven)

evensFrame == <<aggVars, queryVars, presVars, mapVars, xs, loopVars, unpackVars, concatVars, salesVars, personVars>>

EvensInit ==
    /\ my_list = <<>>
    /\ number = -1
    /\ loopOut = <<>>
    /\ epc = "start"
    /\ AggIdle /\ QueryIdle /\ PresIdle /\ MapIdle
    /\ xs = <<>> /\ LoopIdle /\ UnpackIdle /\ ConcatIdle /\ SalesIdle /\ PersonIdle

\* my_list = []
EvensBegin ==
    /\ epc = "start"
    /\ my_list' = <<>>
    /\ epc' = "for"
    /\ UNCHANGED <<number, loopOut>>
    /\ UNCHANGED evensFrame

\* for number in range(0, 1000):  if number % 2 == 0:  my_list.append(number)
EvensFor ==
    /\ epc = "for"
    /\ number + 2 <= Len(RangeOf(0, RangeStop))
    /\ number' = RangeOf(0, RangeStop)[number + 2]
    /\ my_list' = IF IsEven(number') THEN Append(my_list, number') ELSE my_list
    /\ UNCHANGED <<loopOut, epc>>
    /\ UNCHANGED evensFrame

\* the range is exhausted;  my_list  (the cell shows the list)
EvensShow ==
    /\ epc = "for"
    /\ number + 2 > Len(RangeOf(0, RangeStop))
    /\ loopOut' = my_list
    /\ epc' = "shown"
    /\ UNCHANGED <<my_list, number>>
    /\ UNCHANGED evensFrame

\* my_list = [number for number in range(0, 1000) if number % 2 == 0]
\* (the comprehension's number is local to it)
ComprehensionCell ==
    /\ epc = "shown"
    /\ my_list' = Comprehension(RangeOf(0, RangeStop))
    /\ epc' = "comprehension"
    /\ UNCHANGED <<number, loopOut>>
    /\ UNCHANGED evensFrame

EvensNext ==
    \/ EvensBegin
    \/ EvensFor
    \/ EvensShow
    \/ ComprehensionCell

SpecEvens == EvensInit /\ [][EvensNext]_vars

\* C19: the list the loop cell shows and the list the comprehension binds
\* are the same list: 500 elements, the k-th being 2 * (k - 1), so 0 first,
\* 998 last, ascending.
C19_LoopIsComprehension ==
    /\ epc \in {"shown", "comprehension"} =>
        /\ Len(loopOut) = 500
        /\ \A k \in 1..500 : loopOut[k] = 2 * (k - 1)
    /\ epc = "comprehension" => my_list = loopOut

C19_Witness ==
    /\ epc = "comprehension"
    /\ Len(my_list) = 500
    /\ my_list[1] = 0
    /\ my_list[500] = 998
    /\ loopOut[500] = 998

(***************************************************************************)
(* Week 1, the two loops over the list x.  item is the for loop's          *)
(* variable and forPos the position of its iterator, iw the while loop's   *)
(* i, printedFor and printedWhile what each loop printed, lpc the position *)
(* in the two cells, lerr the exception of the while cell.                 *)
(***************************************************************************)
MaxList == 4

\* x = [1, 'a', 2, 'b'];  x.append(3.3)
XLiteral == <<"1", "a", "2", "b", "3.3">>

Items == {"1", "a", "3.3"}

Lists == SeqsUpTo(Items, MaxList) \cup {XLiteral}

\* An increment that skips every other index.
NextIndexSkipping(n) == n + 2

\* i = i + 1
NextIndex(n) == n + 1

\* x[n], Python's index n from 0; an index past the end raises IndexError
Subscript(list, n) ==
    IF n \in 0..(Len(list) - 1) THEN [ok |-> TRUE, val |-> list[n + 1]]
    ELSE [ok |-> FALSE, val |-> "IndexError"]

loopFrame == <<aggVars, queryVars, presVars, mapVars, unpackVars, concatVars, salesVars, personVars, evensVars>>

LoopInit ==
    /\ xs \in Lists
    /\ item = Unbound
    /\ forPos = 0
    /\ iw = 0
    /\ printedFor = <<>>
    /\ printedWhile = <<>>
    /\ lpc = "for"
    /\ lerr = "none"
    /\ AggIdle /\ QueryIdle /\ PresIdle /\ MapIdle
    /\ UnpackIdle /\ ConcatIdle /\ SalesIdle /\ PersonIdle /\ EvensIdle

\* for item in x:  print(item)
ForItem ==
    /\ lpc = "for"
    /\ forPos < Len(xs)
    /\ item' = xs[forPos + 1]
    /\ forPos' = forPos + 1
    /\ printedFor' = Append(printedFor, item')
    /\ UNCHANGED <<xs, iw, printedWhile, lpc, lerr>>
    /\ UNCHANGED loopFrame

\* the iterator of x is exhausted; the next cell starts:  i = 0
WhileInit ==
    /\ lpc = "for"
    /\ forPos >= Len(xs)
    /\ iw' = 0
    /\ lpc' = "while"
    /\ UNCHANGED <<xs, item, forPos, printedFor, printedWhile, lerr>>
    /\ UNCHANGED loopFrame

\* while (i != len(x)):  print(x[i]);  i = i + 1
WhileBody ==
    /\ lpc = "while"
    /\ iw # Len(xs)
    /\ LET r == Subscript(xs, iw) IN
        IF r.ok
            THEN /\ printedWhile' = Append(printedWhile, r.val)
                 /\ iw' = NextIndex(iw)
                 /\ UNCHANGED <<lpc, lerr>>
        ELSE /\ lerr' = r.val
             /\ lpc' = "raised"
             /\ UNCHANGED <<printedWhile, iw>>
    /\ UNCHANGED <<xs, item, forPos, printedFor>>
    /\ UNCHANGED loopFrame

\* i == len(x): the while loop ends
WhileEnd ==
    /\ lpc = "while"
    /\ iw = Len(xs)
    /\ lpc' = "done"
    /\ UNCHANGED <<xs, item, forPos, iw, printedFor, printedWhile, lerr>>
    /\ UNCHANGED loopFrame

LoopNext ==
    \/ ForItem
    \/ WhileInit
    \/ WhileBody
    \/ WhileEnd

SpecLoop == LoopInit /\ [][LoopNext]_vars

\* A running cell keeps running: the kernel executes the next statement.
SpecLoopFair == SpecLoop /\ WF_vars(LoopNext)

\* every pass of the while loop prints once, so it has made as many passes
\* as it has printed lines
WhileInBounds ==
    /\ lerr = "none"
    /\ lpc = "while" =>
        /\ iw \in 0..Len(xs)
        /\ Len(printedWhile) = iw
    /\ lpc = "done" =>
        /\ Len(printedWhile) = Len(xs)
        /\ printedWhile = xs
        /\ printedWhile = printedFor

\* C20: for every list x, the empty one included, the while loop never
\* reads an index outside 0..len(x)-1 (no IndexError), ends, and has then
\* made exactly len(x) passes, printing the elements the for loop printed,
\* in the same order.
C20_WhileLoopVisitsAll == []WhileInBounds /\ <>(lpc = "done")

C20_Witness ==
    /\ lpc = "done"
    /\ xs = XLiteral
    /\ printedWhile = XLiteral
    /\ iw = 5

(***************************************************************************)
(* What the claims about the order of the two sorted lists are stated      *)
(* with.                                                                   *)
(***************************************************************************)
\* the place of a key in a list of (key, mean) pairs, 0 when it has none
PlaceOf(key, pairs) ==
    IF \E k \in DOMAIN pairs : pairs[k][1] = key
        THEN CHOOSE k \in DOMAIN pairs : pairs[k][1] = key
    ELSE 0

\* C21: the keys of the finished group-by-cylinder list are the texts of
\* the cyl column, ordered as texts and not as numbers: the key "10" stands
\* before the key "4" and before the key "6" whenever both are in the list.
C21_TextKeyOrder ==
    CylCellJustFinished =>
        /\ \A k \in DOMAIN CtyMpgByCyl : CtyMpgByCyl[k][1] \in CylKeys
        /\ \A key \in {T4, T6} :
            (PlaceOf(T10, CtyMpgByCyl) > 0 /\ PlaceOf(key, CtyMpgByCyl) > 0)
                => PlaceOf(T10, CtyMpgByCyl) < PlaceOf(key, CtyMpgByCyl)

C21_Witness ==
    /\ CylCellJustFinished
    /\ Len(CtyMpgByCyl) = 2
    /\ PlaceOf(T10, CtyMpgByCyl) = 1
    /\ PlaceOf(T4, CtyMpgByCyl) = 2
    /\ DigitsValue(T4) < DigitsValue(T10)

(***************************************************************************)
(* The grouping cells on rows that differ in class and hwy only, where two *)
(* classes can have the same mean.                                         *)
(***************************************************************************)
TieCars ==
    {Car(T4, T20, cl, hw) : cl \in {TCompact, TSuv}, hw \in {T20, T30}}
    \cup {Car(T4, T20, TSuv, TNA), Car(T4, TNA, TCompact, T20)}

TiesInit ==
    /\ AggInit
    /\ \A k \in DOMAIN mpg : mpg[k] \in TieCars

SpecTies == TiesInit /\ [][AggNext]_vars

\* the for loop over vehicleclass may take any key it has not taken yet
AnyKeyNext ==
    (cell = "HwyMpgByClass" /\ pc = "for" /\ err[cell] = "none") =>
        \A key \in keysLeft : ENABLED (ClassFor /\ t' = key)

\* the appended pair is the one of the key the loop is at
AppendsInLoopOrder ==
    (cell = "HwyMpgByClass" /\ pc = "append" /\ pc' = "for") =>
        /\ Len(HwyMpgByClass') = Len(HwyMpgByClass) + 1
        /\ SubSeq(HwyMpgByClass', 1, Len(HwyMpgByClass)) = HwyMpgByClass
        /\ HwyMpgByClass'[Len(HwyMpgByClass')][1] = t

\* the sort keeps pairs of equal mean in the order they were appended in
TiesKeepLoopOrder ==
    (cell = "HwyMpgByClass" /\ cell' = "end") =>
        \A a, b \in DOMAIN HwyMpgByClass :
            (a < b /\ HwyMpgByClass[a][2] = HwyMpgByClass[b][2]) =>
                PlaceOf(HwyMpgByClass[a][1], HwyMpgByClass')
                    < PlaceOf(HwyMpgByClass[b][1], HwyMpgByClass')

\* C22: the loop over the set vehicleclass can take its keys in any order,
\* the pairs are appended in that order, and the sort on the mean leaves
\* two classes of equal mean hwy in it; so the same rows can end in
\* different lists.
C22_TieOrderIsLoopOrder ==
    /\ []AnyKeyNext
    /\ [][AppendsInLoopOrder]_vars
    /\ [][TiesKeepLoopOrder]_vars

\* rows in the order compact, suv with equal hwy, the list in the order
\* suv, compact
C22_Witness ==
    /\ ClassCellFinished
    /\ mpg = <<Car(T4, T20, TCompact, T20), Car(T4, T20, TSuv, T20)>>
    /\ HwyMpgByClass = <<<<TSuv, <<20, 1>>>>, <<TCompact, <<20, 1>>>>>>

(***************************************************************************)
(* Week 1, the presidents notebook ("DataFrame Example").  df is the frame *)
(* read from presidents.csv, a sequence of rows, each a function from the  *)
(* frame's column names (and "idx", the row's index label) to texts; names *)
(* is the frame str.extract returned, cut by head(); prcell is the last    *)
(* cell run and out what it showed.  A missing text is NaNText.            *)
(***************************************************************************)
MaxPresidents == 6

NaNText == <<NaN>>

Space == 32

\* "G W", "M V B" and "X"
TGW == <<71, Space, 87>>
TMVB == <<77, Space, 86, Space, 66>>
TX == <<88>>

PresidentNames == {TGW, TMVB, TX}

\* read_csv gives the rows the index labels 0, 1, ...; the file has at
\* least one president
PresidentFrames ==
    {[k \in DOMAIN col |-> [idx |-> k - 1, President |-> col[k]]] :
        col \in SeqsUpTo(PresidentNames, MaxPresidents) \ {<<>>}}

\* the regex class \w: digits, letters and the underscore
IsWord(ch) == ch \in (48..57) \cup (65..90) \cup {95} \cup (97..122)

FirstSpace(s) ==
    IF \E k \in DOMAIN s : s[k] = Space
        THEN CHOOSE k \in DOMAIN s : s[k] = Space /\ \A j \in 1..(k - 1) : s[j] # Space
    ELSE 0

LastSpace(s) ==
    IF \E k \in DOMAIN s : s[k] = Space
        THEN CHOOSE k \in DOMAIN s : s[k] = Space /\ \A j \in (k + 1)..Len(s) : s[j] # Space
    ELSE 0

\* the longest run of \w at the start of s
WordPrefix(s) ==
    LET stops == {k \in DOMAIN s : ~IsWord(s[k])} IN
    IF stops = {} THEN s
    ELSE SubSeq(s, 1, (CHOOSE k \in stops : \A j \in stops : k <= j) - 1)

\* s.split(" ")[0] and s.split(" ")[-1]
SplitFirst(s) == IF FirstSpace(s) = 0 THEN s ELSE SubSeq(s, 1, FirstSpace(s) - 1)

SplitLast(s) == SubSeq(s, LastSpace(s) + 1, Len(s))

\* Series.replace("[ ].*", "", regex=True) on one text
ReplaceLastName(s) == SplitFirst(s)

\* str.extract("(?P<First>^[\w]*)(?:.* )(?P<Last>[\w]*$)") on one text: the
\* text matches when it has a space and only \w after its last space;
\* First is then the run of \w it starts with, Last what follows the last
\* space; a text that does not match gives NaN in both groups
Extract(s) ==
    IF LastSpace(s) # 0 /\ \A k \in (LastSpace(s) + 1)..Len(s) : IsWord(s[k])
        THEN [First |-> WordPrefix(s), Last |-> SplitLast(s)]
    ELSE [First |-> NaNText, Last |-> NaNText]

\* df["President"].str.extract(pattern): a frame on the index of df
ExtractAll(frame) ==
    [k \in DOMAIN frame |->
        [idx |-> frame[k].idx,
         First |-> Extract(frame[k].President).First,
         Last |-> Extract(frame[k].President).Last]]

\* frame[col] = value, row by row
WithColumn(row, col, value) ==
    [c2 \in DOMAIN row \cup {col} |-> IF c2 = col THEN value ELSE row[c2]]

\* del(frame[col])
WithoutColumn(frame, col) ==
    [k \in DOMAIN frame |-> [c2 \in DOMAIN frame[k] \ {col} |-> frame[k][c2]]]

\* frame[col] = other[col]: the values are matched on the index label, a
\* row whose label other does not have gets NaN
AssignAligned(frame, col, other) ==
    [k \in DOMAIN frame |->
        WithColumn(frame[k], col,
            IF \E j \in DOMAIN other : other[j].idx = frame[k].idx
                THEN other[CHOOSE j \in DOMAIN other : other[j].idx = frame[k].idx][col]
            ELSE NaNText)]

\* row['First'] = row['President'].split(" ")[0];  row['Last'] = ...[-1]
splitname(row) ==
    WithColumn(WithColumn(row, "First", SplitFirst(row.President)),
               "Last", SplitLast(row.President))

presFrame == <<aggVars, admit_mask, qcell, xs, loopVars, unpackVars, concatVars,
               salesVars, personVars, evensVars, mapVars>>

\* df=pd.read_csv("datasets/presidents.csv");  df.head()
PresInit ==
    /\ df \in PresidentFrames
    /\ out = FrameValue(HeadOf(df))
    /\ names = <<>>
    /\ prcell = "read_csv"
    /\ admit_mask = <<>>
    /\ qcell = "none"
    /\ AggIdle /\ MapIdle
    /\ xs = <<>>
    /\ LoopIdle /\ UnpackIdle /\ ConcatIdle /\ SalesIdle /\ PersonIdle /\ EvensIdle

\* df["First"]=df['President'];  df["First"]=df["First"].replace(...);  df.head()
ReplaceCell ==
    /\ prcell = "read_csv"
    /\ df' = [k \in DOMAIN df |->
                WithColumn(df[k], "First", ReplaceLastName(df[k].President))]
    /\ out' = FrameValue(HeadOf(df'))
    /\ prcell' = "replace"
    /\ UNCHANGED names
    /\ UNCHANGED presFrame

\* del(df["First"]);  df=df.apply(splitname, axis='columns');  df.head()
ApplyCell ==
    /\ prcell = "replace"
    /\ df' = [k \in DOMAIN df |-> splitname(WithoutColumn(df, "First")[k])]
    /\ out' = FrameValue(HeadOf(df'))
    /\ prcell' = "apply"
    /\ UNCHANGED names
    /\ UNCHANGED presFrame

\* del(df['First']);  del(df['Last']);  df["President"].str.extract(pattern).head()
ExtractCell ==
    /\ prcell = "apply"
    /\ df' = WithoutColumn(WithoutColumn(df, "First"), "Last")
    /\ out' = FrameValue(HeadOf(ExtractAll(df')))
    /\ prcell' = "extract"
    /\ UNCHANGED names
    /\ UNCHANGED presFrame

\* names=df["President"].str.extract(pattern).head();  names
NamesCell ==
    /\ prcell = "extract"
    /\ names' = HeadOf(ExtractAll(df))
    /\ out' = FrameValue(names')
    /\ prcell' = "names"
    /\ UNCHANGED df
    /\ UNCHANGED presFrame

\* df["First"]=names["First"];  df["Last"]=names["Last"];  df.head()
CopyCell ==
    /\ prcell = "names"
    /\ df' = AssignAligned(AssignAligned(df, "First", names), "Last", names)
    /\ out' = FrameValue(HeadOf(df'))
    /\ prcell' = "copy"
    /\ UNCHANGED names
    /\ UNCHANGED presFrame

PresNext ==
    \/ ReplaceCell
    \/ ApplyCell
    \/ ExtractCell
    \/ NamesCell
    \/ CopyCell

SpecPres == PresInit /\ [][PresNext]_vars

(***************************************************************************)
(* What the claim about the copied names is stated with.                   *)
(***************************************************************************)
HasName(row) == row.First # NaNText /\ row.Last # NaNText

NoName(row) == row.First = NaNText /\ row.Last = NaNText

NamesCut ==
    prcell \in {"names", "copy"} =>
        /\ Len(names) = (IF Len(df) < 5 THEN Len(df) ELSE 5)
        /\ \A k \in DOMAIN names : names[k].idx = k - 1

NamesInFirstFive ==
    prcell = "copy" =>
        \A k \in DOMAIN df :
            /\ k > 5 => NoName(df[k])
            /\ (k <= 5 /\ df[k].President = TGW) =>
                    (df[k].First = <<71>> /\ df[k].Last = <<87>>)
            /\ (k <= 5 /\ df[k].President = TMVB) =>
                    (df[k].First = <<77>> /\ df[k].Last = <<66>>)
            /\ (k <= 5 /\ df[k].President = TX) => NoName(df[k])

RowsKept ==
    /\ Len(df') = Len(df)
    /\ \A k \in DOMAIN df : df'[k].idx = df[k].idx /\ df'[k].President = df[k].President

\* C23: names is the extracted table cut to its first five rows; after the
\* copy cell a row of df past the fifth has the missing-value marker in
\* First and Last, a row among the first five has the first and last name
\* extracted from its President text (the marker when the text has no
\* space-separated last name), and no cell changes the number of rows of
\* df or its President column.
C23_NamesOnlyInHead == []NamesCut /\ []NamesInFirstFive /\ [][RowsKept]_vars

C23_Witness ==
    /\ prcell = "copy"
    /\ Len(df) = 6
    /\ \A k \in 1..5 : HasName(df[k])
    /\ df[6].President = TGW
    /\ NoName(df[6])

(***************************************************************************)
(* What the claim about the names after the failed unpacking is stated     *)
(* with.                                                                   *)
(***************************************************************************)
FailedUnpackKeepsNames ==
    (upc = "x41" /\ upc' = "raised41") =>
        /\ fname' = fname /\ lname' = lname /\ email' = email
        /\ xs' = xs

NamesOfFirstUnpack ==
    upc \in {"x41", "raised41"} =>
        /\ fname = "Christopher"
        /\ lname = "Brooks"
        /\ email = "brooksch@umich.edu"
        /\ upc = "raised41" => (Len(xs) # 3 /\ uerr # "none")

\* C24: the unpacking line that raises assigns none of fname, lname and
\* email and leaves x as the assignment before it bound it: after the
\* failed In [41] the three names still hold 'Christopher', 'Brooks' and
\* 'brooksch@umich.edu' from In [38], while x is the new tuple.
C24_NamesKeptOnFailure == [][FailedUnpackKeepsNames]_vars /\ []NamesOfFirstUnpack

C24_Witness ==
    /\ upc = "raised41"
    /\ xs = <<"Ann Arbor", "Brooks", "Christopher", "brooksch@umich.edu">>
    /\ fname = "Christopher"
    /\ lname = "Brooks"
    /\ email = "brooksch@umich.edu"

(***************************************************************************)
(* Week 1, cheapest = map(min, store1, store2).  A price is its number of  *)
(* hundredths.  cheapest is the map object: the function and, for each     *)
(* list, how many items its iterator has handed out.  printedItems has one *)
(* entry for every run of the for cell, the lines that run printed; mcell  *)
(* is the position in the cells.                                           *)
(***************************************************************************)
MaxStore == 2

MaxRuns == 2

\* store1 = [10.00, 11.00, 12.34, 2.34];  store2 = [9.00, 11.10, 12.34, 2.01]
Store1Literal == <<1000, 1100, 1234, 234>>

Store2Literal == <<900, 1110, 1234, 201>>

StorePrices == {900, 1000, 1234}

Stores == SeqsUpTo(StorePrices, MaxStore)

\* min(a, b)
Min(a, b) == IF b < a THEN b ELSE a

\* A next() that starts over once a list has run out, as a list would.
MapNextRestarting(m, s1, s2) ==
    IF m.iterators[1] >= Len(s1) \/ m.iterators[2] >= Len(s2)
        THEN [ok |-> FALSE, val |-> 0, iterators |-> <<0, 0>>]
    ELSE [ok |-> TRUE,
          val |-> Min(s1[m.iterators[1] + 1], s2[m.iterators[2] + 1]),
          iterators |-> <<m.iterators[1] + 1, m.iterators[2] + 1>>]

\* next(cheapest): an item is taken from each list's iterator in turn, and
\* the first iterator that has run out ends the map (StopIteration); an
\* item already taken from the first list is then lost
MapNext(m, s1, s2) ==
    IF m.iterators[1] >= Len(s1)
        THEN [ok |-> FALSE, val |-> 0, iterators |-> m.iterators]
    ELSE IF m.iterators[2] >= Len(s2)
        THEN [ok |-> FALSE, val |-> 0,
              iterators |-> <<m.iterators[1] + 1, m.iterators[2]>>]
    ELSE [ok |-> TRUE,
          val |-> Min(s1[m.iterators[1] + 1], s2[m.iterators[2] + 1]),
          iterators |-> <<m.iterators[1] + 1, m.iterators[2] + 1>>]

mapFrame == <<aggVars, queryVars, presVars, xs, loopVars, unpackVars, concatVars,
              salesVars, personVars, evensVars>>

MapInit ==
    /\ store1 = <<>>
    /\ store2 = <<>>
    /\ cheapest = [func |-> "none", iterators |-> <<>>]
    /\ printedItems = <<>>
    /\ mcell = "start"
    /\ AggIdle /\ QueryIdle /\ PresIdle
    /\ xs = <<>>
    /\ LoopIdle /\ UnpackIdle /\ ConcatIdle /\ SalesIdle /\ PersonIdle /\ EvensIdle

\* store1 = [...];  store2 = [...];  cheapest = map(min, store1, store2)
MapCell ==
    /\ mcell = "start"
    /\ \E s1 \in Stores \cup {Store1Literal}, s2 \in Stores \cup {Store2Literal} :
        /\ store1' = s1
        /\ store2' = s2
    /\ cheapest' = [func |-> "min", iterators |-> <<0, 0>>]
    /\ mcell' = "map"
    /\ UNCHANGED printedItems
    /\ UNCHANGED mapFrame

\* the for cell is run (again):  for item in cheapest:
ForCheapestBegin ==
    /\ mcell \in {"map", "for_done"}
    /\ Len(printedItems) < MaxRuns
    /\ printedItems' = Append(printedItems, <<>>)
    /\ mcell' = "for"
    /\ UNCHANGED <<store1, store2, cheapest>>
    /\ UNCHANGED mapFrame

\* for item in cheapest:  print(item)
ForCheapestItem ==
    /\ mcell = "for"
    /\ LET r == MapNext(cheapest, store1, store2) IN
        /\ cheapest' = [cheapest EXCEPT !.iterators = r.iterators]
        /\ IF r.ok
            THEN /\ printedItems' =
                        [printedItems EXCEPT ![Len(printedItems)] = Append(@, FloatText(r.val))]
                 /\ UNCHANGED mcell
           ELSE /\ mcell' = "for_done"
                /\ UNCHANGED printedItems
    /\ UNCHANGED <<store1, store2>>
    /\ UNCHANGED mapFrame

MapCellsNext ==
    \/ MapCell
    \/ ForCheapestBegin
    \/ ForCheapestItem

SpecMap == MapInit /\ [][MapCellsNext]_vars

(***************************************************************************)
(* What the claim about map is stated with.                                *)
(***************************************************************************)
ShorterLen == IF Len(store1) < Len(store2) THEN Len(store1) ELSE Len(store2)

Smaller(k) == IF store1[k] <= store2[k] THEN store1[k] ELSE store2[k]

\* C25: the first run of the for cell over cheapest prints, position by
\* position, the smaller of the two prices, for as many positions as the
\* shorter list has; every later run over the same map object prints
\* nothing.
C25_MapConsumedOnce ==
    /\ (mcell = "for" /\ Len(printedItems) = 1) =>
            Len(printedItems[1]) <= ShorterLen
    /\ (mcell = "for_done" \/ Len(printedItems) > 1) =>
        /\ Len(printedItems[1]) = ShorterLen
        /\ \A k \in 1..ShorterLen : printedItems[1][k] = FloatText(Smaller(k))
    /\ \A run \in DOMAIN printedItems : run > 1 => printedItems[run] = <<>>

C25_Witness ==
    /\ mcell = "for_done"
    /\ store1 = Store1Literal
    /\ store2 = Store2Literal
    /\ Len(printedItems) = 2
    /\ printedItems[1] = <<FloatText(900), FloatText(1100), FloatText(1234), FloatText(201)>>
    /\ printedItems[2] = <<>>

====
